---- MODULE Spec2Model ----
(***************************************************************************)
(* Guardrail / tool-server lifecycle subsystem of sidekick.                *)
(*                                                                         *)
(* Python strings are TLA+ strings; characters are one-character strings   *)
(* obtained with SubSeq.  Python None is the empty tuple and a present     *)
(* optional value v is the one-element tuple <<v>>.  A dict is a sequence   *)
(* of <<key, value>> pairs in insertion order.  Argument values carry      *)
(* their Python type in the field t ("str", "list", "dict", "other").      *)
(***************************************************************************)
EXTENDS Integers, Sequences, FiniteSets, TLC

VARIABLES
    modules,             \* the server modules under the package src.tools.mcp
    imported,            \* whether those modules are in sys.modules
    registered_servers,  \* mcp_registry._registered_servers, in insertion order
    mcp_servers_cache,   \* mcp_registry._mcp_servers_cache (None or a copy)
    environ,             \* the names set in os.environ
    config,              \* the GuardrailConfig of the run
    enable_guardrails,   \* MCPManager._enable_guardrails
    server_configs,      \* MCPManager._server_configs
    servers,             \* MCPManager._servers: the handles created so far
    cleanup_hooks,       \* MCPManager._cleanup_hooks: keys with a cleanup hook set
    tracker,             \* playwright._cleanup_tracker
    call,                \* the tool call in flight through a hook chain
    trace,               \* stages the call in flight has run, in order
    outcome,             \* what the last finished call or check produced
    calls_made,          \* how many calls and checks the behaviour has made
    managers,            \* the MCPManager of each agent run alive in the process
    disk,                \* the paths of the files that exist
    last,                \* the last operation: its inputs and what it did
    history              \* what the operations so far did, for the properties

vars == <<modules, imported, registered_servers, mcp_servers_cache, environ,
          config, enable_guardrails, server_configs, servers, cleanup_hooks,
          tracker, call, trace, outcome, calls_made, managers, disk, last,
          history>>

None == <<>>
Some(v) == <<v>>
Get(o) == o[1]

(***************************************************************************)
(* Python string primitives                                                *)
(***************************************************************************)

Chr(s, i) == SubSeq(s, i, i)

\* the lower-case form of each upper-case ASCII letter
LowerTable ==
    [c \in {"A", "B", "C", "D", "E", "F", "G", "H", "I", "J", "K", "L", "M",
            "N", "O", "P", "Q", "R", "S", "T", "U", "V", "W", "X", "Y", "Z"} |->
        CASE c = "A" -> "a" [] c = "B" -> "b" [] c = "C" -> "c" [] c = "D" -> "d"
          [] c = "E" -> "e" [] c = "F" -> "f" [] c = "G" -> "g" [] c = "H" -> "h"
          [] c = "I" -> "i" [] c = "J" -> "j" [] c = "K" -> "k" [] c = "L" -> "l"
          [] c = "M" -> "m" [] c = "N" -> "n" [] c = "O" -> "o" [] c = "P" -> "p"
          [] c = "Q" -> "q" [] c = "R" -> "r" [] c = "S" -> "s" [] c = "T" -> "t"
          [] c = "U" -> "u" [] c = "V" -> "v" [] c = "W" -> "w" [] c = "X" -> "x"
          [] c = "Y" -> "y" [] c = "Z" -> "z"]

LowerChar(c) == IF c \in DOMAIN LowerTable THEN LowerTable[c] ELSE c

RECURSIVE LowerFrom(_, _)
\* the lower-case form of s[i:]
LowerFrom(s, i) ==
    IF i > Len(s) THEN ""
    ELSE LowerChar(Chr(s, i)) \o LowerFrom(s, i + 1)

\* str.lower(): a string with no upper-case letter is its own lower-case form
Lower(s) ==
    IF \A i \in 1..Len(s) : Chr(s, i) \notin DOMAIN LowerTable THEN s
    ELSE LowerFrom(s, 1)

RECURSIVE ReplaceFrom(_, _, _, _)
\* s[i:].replace(old, new)
ReplaceFrom(s, i, old, new) ==
    IF i > Len(s) THEN ""
    ELSE (IF Chr(s, i) = old THEN new ELSE Chr(s, i))
         \o ReplaceFrom(s, i + 1, old, new)

\* str.replace(old, new) for a one-character old
Replace(s, old, new) ==
    IF \A i \in 1..Len(s) : Chr(s, i) # old THEN s
    ELSE ReplaceFrom(s, 1, old, new)

\* str.startswith(p)
StartsWith(s, p) == Len(p) <= Len(s) /\ SubSeq(s, 1, Len(p)) = p

\* p in s
Contains(s, p) ==
    \E i \in 1..(Len(s) - Len(p) + 1) : SubSeq(s, i, i + Len(p) - 1) = p

\* position of the first occurrence of the character c in s, 0 when absent
Find(s, c) ==
    IF \E i \in 1..Len(s) : Chr(s, i) = c
    THEN CHOOSE i \in 1..Len(s) :
            Chr(s, i) = c /\ \A j \in 1..(i - 1) : Chr(s, j) # c
    ELSE 0

\* s.split(c)[-1]
LastSegment(s, c) ==
    LET cut == {i \in 1..Len(s) : Chr(s, i) = c}
    IN  IF cut = {} THEN s
        ELSE LET k == CHOOSE i \in cut : \A j \in cut : j <= i
             IN  SubSeq(s, k + 1, Len(s))

RECURSIVE RStrip(_, _)
\* s.rstrip(c)
RStrip(s, c) ==
    IF s # "" /\ Chr(s, Len(s)) = c THEN RStrip(SubSeq(s, 1, Len(s) - 1), c)
    ELSE s

RECURSIVE FnMatch(_, _)
\* fnmatch.fnmatch(name, pat) on a POSIX host (normcase is the identity):
\* '*' matches any run of characters, '?' one character, the rest literally.
\* Patterns of the model hold no '[' (character classes are not drawn).
FnMatch(name, pat) ==
    IF pat = "" THEN name = ""
    ELSE IF Chr(pat, 1) = "*"
         THEN \E k \in 0..Len(name) :
                 FnMatch(SubSeq(name, k + 1, Len(name)), SubSeq(pat, 2, Len(pat)))
         ELSE /\ name # ""
              /\ (Chr(pat, 1) = "?" \/ Chr(pat, 1) = Chr(name, 1))
              /\ FnMatch(SubSeq(name, 2, Len(name)), SubSeq(pat, 2, Len(pat)))

\* {t.lower() for t in names}
LowerSet(names) == {Lower(t) : t \in names}

(***************************************************************************)
(* mcp_registry: tool-name normalisation, rule sets, descriptors           *)
(***************************************************************************)

MaxPrefixLen == 10

\* get_base_tool_name with len(parts[0]) < 10
get_base_tool_name_strict(tool_name) ==
    IF ~Contains(tool_name, "_") THEN tool_name
    ELSE LET k == Find(tool_name, "_")
         IN  IF k - 1 < MaxPrefixLen
             THEN SubSeq(tool_name, k + 1, Len(tool_name))
             ELSE tool_name

\* get_base_tool_name: the part after the first underscore when the first
\* segment has at most MaxPrefixLen characters.
get_base_tool_name(tool_name) ==
    IF ~Contains(tool_name, "_") THEN tool_name
    ELSE LET k == Find(tool_name, "_")
         IN  IF k - 1 <= MaxPrefixLen
             THEN SubSeq(tool_name, k + 1, Len(tool_name))
             ELSE tool_name

\* ServerGuardrailRules(...)
ServerGuardrailRules(wt, sfp, spp, safe, cc) ==
    [write_tools |-> wt, read_only_tools |-> {},
     sensitive_file_patterns |-> sfp, sensitive_path_patterns |-> spp,
     safe_file_patterns |-> safe, custom_check |-> cc]

\* MCPServerConfig(...): the fields the guardrail and lifecycle code reads
MCPServerConfig(key, prefix, en, req, rules, hooks) ==
    [key |-> key, tool_prefix |-> prefix, enabled |-> en, requires_env |-> req,
     guardrail_rules |-> rules, cleanup_hooks |-> hooks]

\* index of key in a registry (a dict in insertion order), 0 when absent
IndexOf(reg, key) ==
    IF \E i \in 1..Len(reg) : reg[i].key = key
    THEN CHOOSE i \in 1..Len(reg) : reg[i].key = key
    ELSE 0

\* a registry that keeps the first config registered under a key
DictSet_setdefault(reg, cfg) ==
    IF IndexOf(reg, cfg.key) # 0 THEN reg ELSE Append(reg, cfg)

\* _registered_servers[key] = config: overwrite in place or append
DictSet(reg, cfg) ==
    IF IndexOf(reg, cfg.key) # 0
    THEN [reg EXCEPT ![IndexOf(reg, cfg.key)] = cfg]
    ELSE Append(reg, cfg)

RECURSIVE DictUpdate(_, _)
\* {**base, **override}
DictUpdate(base, override) ==
    IF override = <<>> THEN base
    ELSE DictUpdate(DictSet(base, Head(override)), Tail(override))

\* auto_discover_mcp_servers: import_module runs a module's registrations
\* only when the module is not yet in sys.modules; the result is a copy
\* of _registered_servers.
DiscoveredRegistry(mods, imp, reg) ==
    IF imp THEN reg ELSE DictUpdate(reg, mods)

\* a get_mcp_servers that discovers on every call
get_mcp_servers_rescan(mods, imp, reg, cache) ==
    DiscoveredRegistry(mods, imp, reg)

\* get_mcp_servers: the cached map, discovering on the first call
get_mcp_servers(mods, imp, reg, cache) ==
    IF cache = None THEN DiscoveredRegistry(mods, imp, reg) ELSE Get(cache)

\* get_all_guardrail_rules: the rule sets of the servers that define one,
\* in registration order
get_all_guardrail_rules(srv) ==
    LET F[i \in 0..Len(srv)] ==
            IF i = 0 THEN <<>>
            ELSE IF srv[i].guardrail_rules # None
                 THEN Append(F[i - 1], Get(srv[i].guardrail_rules))
                 ELSE F[i - 1]
    IN  F[Len(srv)]

\* the rule sets a check made in the current state aggregates
CurrentRules ==
    get_all_guardrail_rules(
        get_mcp_servers(modules, imported, registered_servers, mcp_servers_cache))

(***************************************************************************)
(* middleware/guardrails/core.py: GuardrailConfig and the security checks  *)
(***************************************************************************)

\* GuardrailConfig(...): allowed_tools and current_user_id are optional
GuardrailConfig(ro, bsf, sens, safe, blocked, allowed, user, zones) ==
    [read_only |-> ro, block_sensitive_files |-> bsf,
     sensitive_patterns |-> sens, safe_patterns |-> safe,
     blocked_tools |-> blocked, allowed_tools |-> allowed,
     log_blocked_attempts |-> TRUE, current_user_id |-> user,
     safe_zone_paths |-> zones]

\* GuardrailConfig(): the dataclass defaults
DefaultGuardrailConfig ==
    GuardrailConfig(TRUE, TRUE, {}, {}, {}, None, None, {"data/"})

get_all_sensitive_patterns(cfg, rules) ==
    cfg.sensitive_patterns
        \cup UNION {rules[i].sensitive_file_patterns : i \in 1..Len(rules)}

get_all_sensitive_path_patterns(cfg, rules) ==
    UNION {rules[i].sensitive_path_patterns : i \in 1..Len(rules)}

get_all_safe_patterns(cfg, rules) ==
    cfg.safe_patterns
        \cup UNION {rules[i].safe_file_patterns : i \in 1..Len(rules)}

\* the blocked set with the write tools of the rule sets in it whatever
\* read_only is
get_all_blocked_tools_with_write_tools(cfg, rules) ==
    cfg.blocked_tools \cup UNION {rules[i].write_tools : i \in 1..Len(rules)}

get_all_blocked_tools(cfg, rules) ==
    cfg.blocked_tools
        \cup (IF cfg.read_only
              THEN UNION {rules[i].write_tools : i \in 1..Len(rules)}
              ELSE {})

\* get_allowed_memory_entity: "user_<id>" for a non-empty user id
get_allowed_memory_entity(cfg) ==
    IF cfg.current_user_id # None /\ Get(cfg.current_user_id) # ""
    THEN Some("user_" \o Get(cfg.current_user_id))
    ELSE None

\* GuardrailViolation(message, tool_name, violation_type)
GuardrailViolation(message, tool_name, violation_type) ==
    [message |-> message, tool_name |-> tool_name,
     violation_type |-> violation_type]

\* is_sensitive_file without the safe patterns: a sensitive match decides
is_sensitive_file_additive(path, cfg, rules) ==
    LET path_lower == Replace(Lower(path), "\\", "/")
        filename   == LastSegment(path_lower, "/")
    IN  /\ path # ""
        /\ \/ \E pattern \in get_all_sensitive_patterns(cfg, rules) :
                  \/ FnMatch(filename, Lower(pattern))
                  \/ FnMatch(path_lower, Lower(pattern))
                  \/ (~Contains(pattern, "*")
                        /\ Contains(path_lower, Lower(pattern)))
           \/ \E pattern \in get_all_sensitive_path_patterns(cfg, rules) :
                  FnMatch(path_lower, Lower(pattern))

\* is_sensitive_file
is_sensitive_file(path, cfg, rules) ==
    IF path = "" THEN FALSE
    ELSE
      LET path_lower == Replace(Lower(path), "\\", "/")
          filename   == LastSegment(path_lower, "/")
      IN  IF \E pattern \in get_all_safe_patterns(cfg, rules) :
                 \/ FnMatch(filename, Lower(pattern))
                 \/ FnMatch(path_lower, Lower(pattern))
          THEN FALSE
          ELSE \/ \E pattern \in get_all_sensitive_patterns(cfg, rules) :
                     \/ FnMatch(filename, Lower(pattern))
                     \/ FnMatch(path_lower, Lower(pattern))
                     \/ (~Contains(pattern, "*")
                           /\ Contains(path_lower, Lower(pattern)))
               \/ \E pattern \in get_all_sensitive_path_patterns(cfg, rules) :
                     FnMatch(path_lower, Lower(pattern))

\* is_in_safe_zone
is_in_safe_zone(path, cfg) ==
    IF path = "" \/ cfg.safe_zone_paths = {} THEN FALSE
    ELSE
      LET path_lower == Replace(Lower(path), "\\", "/")
      IN  \E zone \in cfg.safe_zone_paths :
            LET zone_lower ==
                    RStrip(Replace(Lower(zone), "\\", "/"), "/") \o "/"
            IN  \/ StartsWith(path_lower, zone_lower)
                \/ path_lower = RStrip(zone_lower, "/")
                \/ Contains("/" \o path_lower \o "/", "/" \o zone_lower)

\* the parameter names extract_paths_from_args reads paths from
path_params ==
    {"path", "file", "filepath", "file_path", "filename",
     "source", "destination", "src", "dst", "paths"}

\* argument values, tagged with their Python type
Str(s) == [t |-> "str", v |-> s]
List(l) == [t |-> "list", v |-> l]
Dict(d) == [t |-> "dict", v |-> d]
Other == [t |-> "other", v |-> <<>>]

\* "/" in s or "\\" in s or "." in s
LooksLikePath(s) == Contains(s, "/") \/ Contains(s, "\\") \/ Contains(s, ".")

\* [v for v in items if isinstance(v, str) and keep(v)]
StrItems(items, pathlike) ==
    LET F[i \in 0..Len(items)] ==
            IF i = 0 THEN <<>>
            ELSE IF items[i].t = "str"
                    /\ (pathlike => LooksLikePath(items[i].v))
                 THEN Append(F[i - 1], items[i].v)
                 ELSE F[i - 1]
    IN  F[Len(items)]

\* extract_paths_from_args: keyword arguments first, then positional ones
extract_paths_from_args(args, kwargs, tool_name) ==
    LET K[i \in 0..Len(kwargs)] ==
            IF i = 0 THEN <<>>
            ELSE LET key   == kwargs[i][1]
                     value == kwargs[i][2]
                 IN  IF Lower(key) \in path_params
                     THEN IF value.t = "str" THEN Append(K[i - 1], value.v)
                          ELSE IF value.t = "list"
                               THEN K[i - 1] \o StrItems(value.v, FALSE)
                               ELSE K[i - 1]
                     ELSE K[i - 1]
        A[i \in 0..Len(args)] ==
            IF i = 0 THEN K[Len(kwargs)]
            ELSE IF args[i].t = "str"
                 THEN IF LooksLikePath(args[i].v)
                      THEN Append(A[i - 1], args[i].v)
                      ELSE A[i - 1]
                 ELSE IF args[i].t = "list"
                      THEN A[i - 1] \o StrItems(args[i].v, TRUE)
                      ELSE A[i - 1]
    IN  A[Len(args)]

(***************************************************************************)
(* The memory server's custom check.  Its module (src/tools/mcp/memory.py) *)
(* is not among the sources; it is modelled from the design document's     *)
(* principal-isolation step and from tests/test_guardrails.py.             *)
(***************************************************************************)

\* tools that create, mutate or open entities named in their arguments
MEMORY_ISOLATED_TOOLS ==
    {"create_entities", "create_relations", "add_observations",
     "delete_entities", "delete_observations", "delete_relations",
     "open_nodes"}

\* tools that read every principal's state
MEMORY_READ_ALL_TOOLS == {"read_graph"}

\* search-style tools with no entity targeting
MEMORY_SEARCH_TOOLS == {"search_nodes"}

\* d.get(key): the values stored under key in a dict (at most one)
DictGet(d, key) == {d[i][2] : i \in {j \in 1..Len(d) : d[j][1] = key}}

\* the string items of every list stored under key
ListStrs(kwargs, key) ==
    UNION {{l.v[i].v : i \in {j \in 1..Len(l.v) : l.v[j].t = "str"}} :
             l \in {x \in DictGet(kwargs, key) : x.t = "list"}}

\* the strings stored under field in the dict items of every list under key
ListFields(kwargs, key, field) ==
    UNION {UNION {{f.v : f \in {x \in DictGet(l.v[i].v, field) : x.t = "str"}} :
                    i \in {j \in 1..Len(l.v) : l.v[j].t = "dict"}} :
             l \in {x \in DictGet(kwargs, key) : x.t = "list"}}

\* every entity or relation identifier a memory call references
memory_referenced_entities(kwargs) ==
    ListFields(kwargs, "entities", "name")
        \cup ListFields(kwargs, "observations", "entityName")
        \cup ListFields(kwargs, "deletions", "entityName")
        \cup ListFields(kwargs, "relations", "from")
        \cup ListFields(kwargs, "relations", "to")
        \cup ListStrs(kwargs, "entityNames")
        \cup ListStrs(kwargs, "names")

\* whether the raw or the base tool name is in a tier
InTier(tool_name, tier) ==
    Lower(tool_name) \in tier \/ get_base_tool_name(Lower(tool_name)) \in tier

\* the memory rule set's custom_check: None, or the violation it raises
memory_custom_check(tool_name, args, kwargs, cfg) ==
    IF ~InTier(tool_name, MEMORY_ISOLATED_TOOLS \cup MEMORY_READ_ALL_TOOLS)
    THEN None
    ELSE IF get_allowed_memory_entity(cfg) = None
    THEN Some(GuardrailViolation(
                "Memory tool '" \o tool_name \o "' requires a user context",
                tool_name, "memory_no_context"))
    ELSE IF \E e \in memory_referenced_entities(kwargs) :
                ~StartsWith(e, Get(get_allowed_memory_entity(cfg)))
    THEN Some(GuardrailViolation(
                "Memory access to another user's entity is blocked",
                tool_name, "memory_isolation"))
    ELSE None

(***************************************************************************)
(* check_guardrails, step by step.  Each step yields None when it passes   *)
(* and the violation it raises otherwise; the first violation decides.     *)
(***************************************************************************)

\* the whitelist matched against the base name as well
WhitelistStep_base(tool_name, cfg) ==
    IF cfg.allowed_tools # None
         /\ Lower(tool_name) \notin LowerSet(Get(cfg.allowed_tools))
         /\ get_base_tool_name(Lower(tool_name))
                \notin LowerSet(Get(cfg.allowed_tools))
    THEN Some(GuardrailViolation(
                "Tool '" \o tool_name \o "' is not in the allowed tools list",
                tool_name, "not_allowed"))
    ELSE None

\* whitelist mode: exact match on the lower-cased name, no prefix stripping
WhitelistStep(tool_name, cfg) ==
    IF cfg.allowed_tools # None
         /\ Lower(tool_name) \notin LowerSet(Get(cfg.allowed_tools))
    THEN Some(GuardrailViolation(
                "Tool '" \o tool_name \o "' is not in the allowed tools list",
                tool_name, "not_allowed"))
    ELSE None

\* tool_name_lower in blocked_lower or base_name_lower in blocked_lower
IsBlockedName(tool_name, cfg, rules) ==
    LET blocked_lower == LowerSet(get_all_blocked_tools(cfg, rules))
    IN  \/ Lower(tool_name) \in blocked_lower
        \/ get_base_tool_name(Lower(tool_name)) \in blocked_lower

\* all(...) without the guard on an empty list of paths
AllInSafeZone_vacuous(paths, cfg) ==
    \A i \in 1..Len(paths) : is_in_safe_zone(paths[i], cfg)

\* any(...) in place of all(...)
AllInSafeZone_any(paths, cfg) ==
    \E i \in 1..Len(paths) : is_in_safe_zone(paths[i], cfg)

\* paths and all(is_in_safe_zone(p, config) for p in paths)
AllInSafeZone(paths, cfg) ==
    paths # <<>> /\ \A i \in 1..Len(paths) : is_in_safe_zone(paths[i], cfg)

\* blocked tools, with the safe-zone override of read-only mode
BlockedToolStep(tool_name, args, kwargs, cfg, rules) ==
    IF ~IsBlockedName(tool_name, cfg, rules) THEN None
    ELSE IF cfg.read_only /\ cfg.safe_zone_paths # {}
    THEN IF AllInSafeZone(extract_paths_from_args(args, kwargs, tool_name), cfg)
         THEN None
         ELSE Some(GuardrailViolation(
                     "Tool '" \o tool_name \o "' is blocked (read-only mode)",
                     tool_name, "write_operation"))
    ELSE IF cfg.read_only
         THEN Some(GuardrailViolation(
                     "Tool '" \o tool_name \o "' is blocked (read-only mode)",
                     tool_name, "write_operation"))
         ELSE Some(GuardrailViolation(
                     "Tool '" \o tool_name \o "' is blocked",
                     tool_name, "blocked_tool"))

\* sensitive file access: the first sensitive path raises
SensitiveFileStep(tool_name, args, kwargs, cfg, rules) ==
    LET paths == extract_paths_from_args(args, kwargs, tool_name)
        hits  == {i \in 1..Len(paths) : is_sensitive_file(paths[i], cfg, rules)}
    IN  IF cfg.block_sensitive_files /\ hits # {}
        THEN LET i == CHOOSE j \in hits : \A k \in hits : j <= k
             IN  Some(GuardrailViolation(
                         "Access to sensitive file blocked: " \o paths[i],
                         tool_name, "sensitive_file"))
        ELSE None

\* the tools the custom check "name_check", a callable registered by code
\* outside the package, denies
NameCheckDenied == {"open_nodes"}

\* rules.custom_check(tool_name, args, kwargs, config)
RunCustomCheck(check, tool_name, args, kwargs, cfg) ==
    IF check = "memory_check"
    THEN memory_custom_check(tool_name, args, kwargs, cfg)
    ELSE IF check = "name_check" /\ Lower(tool_name) \in NameCheckDenied
    THEN Some(GuardrailViolation(
                 "Tool '" \o tool_name \o "' denied by name_check",
                 tool_name, "custom"))
    ELSE None

\* the custom checks never run
CustomCheckStep_skip(tool_name, args, kwargs, cfg, rules) == None

\* custom checks of the registered rule sets, in registration order
CustomCheckStep(tool_name, args, kwargs, cfg, rules) ==
    LET F[i \in 0..Len(rules)] ==
            IF i = 0 THEN None
            ELSE IF F[i - 1] # None THEN F[i - 1]
            ELSE IF rules[i].custom_check # None
                 THEN RunCustomCheck(Get(rules[i].custom_check),
                                     tool_name, args, kwargs, cfg)
                 ELSE None
    IN  F[Len(rules)]

\* every custom check of the rule sets is invoked, whatever the steps before
\* it and the checks before it decided
custom_checks_invoked_all(tool_name, args, kwargs, cfg, rules) ==
    LET F[i \in 0..Len(rules)] ==
            IF i = 0 THEN <<>>
            ELSE IF rules[i].custom_check # None
                 THEN Append(F[i - 1], Get(rules[i].custom_check))
                 ELSE F[i - 1]
    IN  F[Len(rules)]

\* the custom checks a call of check_guardrails invokes, in the order it
\* invokes them: none when an earlier step returns its violation, else
\* those of the rule sets in order up to the first that returns one
custom_checks_invoked(tool_name, args, kwargs, cfg, rules) ==
    LET F[i \in 0..Len(rules)] ==
            IF i = 0 THEN [invoked |-> <<>>, violation |-> None]
            ELSE IF F[i - 1].violation # None THEN F[i - 1]
            ELSE IF rules[i].custom_check # None
                 THEN [invoked |-> Append(F[i - 1].invoked,
                                          Get(rules[i].custom_check)),
                       violation |-> RunCustomCheck(Get(rules[i].custom_check),
                                         tool_name, args, kwargs, cfg)]
                 ELSE F[i - 1]
    IN  IF WhitelistStep(tool_name, cfg) # None THEN <<>>
        ELSE IF BlockedToolStep(tool_name, args, kwargs, cfg, rules) # None
        THEN <<>>
        ELSE IF SensitiveFileStep(tool_name, args, kwargs, cfg, rules) # None
        THEN <<>>
        ELSE F[Len(rules)].invoked

\* x = field; x |= added: the union is made on the policy's own set
FieldAfterUnion_in_place(field, added) == field \cup added

\* x = set(field) or field.copy(); x |= added: what the policy's field
\* holds afterwards, the union being made on a copy
FieldAfterUnion(field, added) == field

\* the policy after check_guardrails ran on it: get_all_blocked_tools is
\* called when the whitelist let the call pass, get_all_sensitive_patterns
\* and get_all_safe_patterns by is_sensitive_file for the paths of a call
\* that reached the sensitive-file step
config_after_check(tool_name, args, kwargs, cfg, rules) ==
    LET listed  == WhitelistStep(tool_name, cfg) = None
        scanned == /\ listed
                   /\ BlockedToolStep(tool_name, args, kwargs, cfg, rules) = None
                   /\ cfg.block_sensitive_files
                   /\ extract_paths_from_args(args, kwargs, tool_name) # <<>>
    IN  [cfg EXCEPT
            !.blocked_tools =
                IF listed /\ cfg.read_only
                THEN FieldAfterUnion(@, UNION {rules[i].write_tools :
                                                  i \in 1..Len(rules)})
                ELSE @,
            !.sensitive_patterns =
                IF scanned
                THEN FieldAfterUnion(@, UNION {rules[i].sensitive_file_patterns :
                                                  i \in 1..Len(rules)})
                ELSE @,
            !.safe_patterns =
                IF scanned
                THEN FieldAfterUnion(@, UNION {rules[i].safe_file_patterns :
                                                  i \in 1..Len(rules)})
                ELSE @]

\* check_guardrails returning right after the safe-zone override allowed a
\* blocked tool
check_guardrails_override_returns(tool_name, args, kwargs, cfg, rules) ==
    LET allowed_v   == WhitelistStep(tool_name, cfg)
        blocked_v   == BlockedToolStep(tool_name, args, kwargs, cfg, rules)
        sensitive_v == SensitiveFileStep(tool_name, args, kwargs, cfg, rules)
    IN  IF allowed_v # None THEN allowed_v
        ELSE IF blocked_v # None THEN blocked_v
        ELSE IF IsBlockedName(tool_name, cfg, rules) THEN None
        ELSE IF sensitive_v # None THEN sensitive_v
        ELSE CustomCheckStep(tool_name, args, kwargs, cfg, rules)

\* check_guardrails with the sensitive-file step moved before the
\* blocked-tool step
check_guardrails_sensitive_first(tool_name, args, kwargs, cfg, rules) ==
    LET allowed_v   == WhitelistStep(tool_name, cfg)
        blocked_v   == BlockedToolStep(tool_name, args, kwargs, cfg, rules)
        sensitive_v == SensitiveFileStep(tool_name, args, kwargs, cfg, rules)
    IN  IF allowed_v # None THEN allowed_v
        ELSE IF sensitive_v # None THEN sensitive_v
        ELSE IF blocked_v # None THEN blocked_v
        ELSE CustomCheckStep(tool_name, args, kwargs, cfg, rules)

\* check_guardrails with a whitelist that grants: a call whose name is on
\* the whitelist is allowed without the later steps
check_guardrails_whitelist_grants(tool_name, args, kwargs, cfg, rules) ==
    LET allowed_v   == WhitelistStep(tool_name, cfg)
        blocked_v   == BlockedToolStep(tool_name, args, kwargs, cfg, rules)
        sensitive_v == SensitiveFileStep(tool_name, args, kwargs, cfg, rules)
    IN  IF allowed_v # None THEN allowed_v
        ELSE IF cfg.allowed_tools # None THEN None
        ELSE IF blocked_v # None THEN blocked_v
        ELSE IF sensitive_v # None THEN sensitive_v
        ELSE CustomCheckStep(tool_name, args, kwargs, cfg, rules)

\* check_guardrails: None when the call is allowed, else the violation raised
check_guardrails(tool_name, args, kwargs, cfg, rules) ==
    LET allowed_v   == WhitelistStep(tool_name, cfg)
        blocked_v   == BlockedToolStep(tool_name, args, kwargs, cfg, rules)
        sensitive_v == SensitiveFileStep(tool_name, args, kwargs, cfg, rules)
    IN  IF allowed_v # None THEN allowed_v
        ELSE IF blocked_v # None THEN blocked_v
        ELSE IF sensitive_v # None THEN sensitive_v
        ELSE CustomCheckStep(tool_name, args, kwargs, cfg, rules)

(***************************************************************************)
(* Server modules under src/tools/mcp/.  playwright.py is among the        *)
(* sources; the registrations of the filesystem, github and memory         *)
(* modules follow the design document and tests/test_guardrails.py.        *)
(***************************************************************************)

\* register_mcp_server(key="playwright", ..., cleanup_hooks=ServerCleanupHooks(...))
PlaywrightServer ==
    MCPServerConfig("playwright", None, TRUE, {}, None, Some("playwright"))

FilesystemServer ==
    MCPServerConfig("filesystem", None, TRUE, {},
        Some(ServerGuardrailRules({"write_file", "move_file"},
                                  {".env", "*.db", "id_rsa"},
                                  {"*/.aws/*"}, {"commands.db"}, None)),
        None)

GithubServer ==
    MCPServerConfig("github", Some("gh"), TRUE, {"GITHUB_TOKEN"},
        Some(ServerGuardrailRules({"update_issue"}, {}, {}, {}, None)),
        None)

MemoryServer ==
    MCPServerConfig("memory", Some("mem"), TRUE, {},
        Some(ServerGuardrailRules({}, {}, {}, {}, Some("memory_check"))),
        None)

\* the alternative contents of the package: every module, or playwright alone
ModuleSets ==
    {<<FilesystemServer, GithubServer, MemoryServer, PlaywrightServer>>,
     <<PlaywrightServer>>}

(***************************************************************************)
(* Inputs of the decision engine                                           *)
(***************************************************************************)

\* how many checks one behaviour makes
MaxChecks == 1

\* the policies a run is given
CheckConfigs ==
    {GuardrailConfig(ro, bsf, {".custom"}, {"*.pub"}, blocked, allowed, user, zones) :
        ro \in BOOLEAN, bsf \in BOOLEAN,
        blocked \in {{}, {"My_Tool", "read_graph", "move_file"}},
        allowed \in {None, Some({"read_file", "Write_File", "create_entities",
                                 "gh_update_issue", "filesystem_write_file"})},
        user \in {None, Some("U1")},
        zones \in {{}, {"data/", "tmp"}}}

\* principal ids other than the run's own
PrincipalIds == {"U1", "U2", "U12", "U1_x"}

\* tool names: plain, mixed case, prefixed by a short, a long and a
\* two-segment prefix, memory tools of each tier
ToolNames ==
    {"read_file", "write_file", "move_file",
     "gh_update_issue", "gh_get_issue",
     "organization_update_issue", "my_srv_write_file", "my_tool",
     "filesystem_write_file",
     "create_entities", "mem_create_entities", "open_nodes",
     "read_graph", "search_nodes"}

Entity(n) == Dict(<<<<"name", Str(n)>>, <<"entityType", Str("person")>>>>)
Relation(a, b) == Dict(<<<<"from", Str(a)>>, <<"to", Str(b)>>>>)
Call(a, k) == [args |-> a, kwargs |-> k]

\* the arguments of a call: positional and keyword
CallArgs ==
    << Call(<<>>, <<>>),
       Call(<<>>, <<<<"path", Str("data/out.txt")>>>>),
       Call(<<>>, <<<<"path", Str("src/out.txt")>>>>),
       Call(<<>>, <<<<"path", Str("data/.env")>>>>),
       Call(<<>>, <<<<"path", Str("data/commands.db")>>>>),
       Call(<<>>, <<<<"path", Str("tmp/id_rsa.pub")>>>>),
       Call(<<>>, <<<<"source", Str("data/a.txt")>>,
                   <<"destination", Str("src/b.txt")>>>>),
       Call(<<>>, <<<<"paths", List(<<Str("data/a.txt"), Str("tmp/b.db")>>)>>>>),
       Call(<<>>, <<<<"Path", Str("/home/u/p/DATA\\Out.TXT")>>>>),
       Call(<<>>, <<<<"path", Str("data/../src/x")>>>>),
       Call(<<>>, <<<<"path", Str("/home/u/.aws/credentials")>>>>),
       Call(<<>>, <<<<"content", Str("data/.env")>>, <<"path", Other>>>>),
       Call(<<>>, <<<<"entities", List(<<Entity("user_U1"), Entity("user_U2")>>)>>>>),
       Call(<<>>, <<<<"relations", List(<<Relation("user_U1", "user_U1_x")>>)>>>>),
       Call(<<>>, <<<<"names", List(<<Str("user_U12")>>)>>>>),
       Call(<<>>, <<<<"entityNames", List(<<Str("user_U2")>>)>>,
                   <<"path", Str("data/.env")>>>>),
       Call(<<>>, <<<<"query", Str("user_U2")>>>>),
       Call(<<Str("src/.env"), Str("hello")>>, <<>>),
       Call(<<List(<<Str("data/a.b"), Str("data")>>)>>,
            <<<<"file", Str("tmp/c.txt")>>>>) >>

(***************************************************************************)
(* The decision engine as a function: a policy and a package are drawn,    *)
(* then GuardrailEnforcer.check is applied to drawn calls.                 *)
(***************************************************************************)

\* no operation has run yet
NoOp == [op |-> "none"]

\* PlaywrightCleanupTracker(): the dataclass defaults
NewTracker ==
    [browser_opened |-> FALSE, browser_closed |-> FALSE,
     screenshot_files |-> <<>>, cleanup_done |-> FALSE]

\* get_mcp_servers() as a step: discovery on the first call fills the
\* registry and the cache
DiscoveryEffect ==
    /\ mcp_servers_cache' =
          Some(get_mcp_servers(modules, imported, registered_servers,
                               mcp_servers_cache))
    /\ registered_servers' =
          IF mcp_servers_cache = None
          THEN DiscoveredRegistry(modules, imported, registered_servers)
          ELSE registered_servers
    /\ imported' = (imported \/ mcp_servers_cache = None)

InitCheck ==
    /\ modules \in ModuleSets
    /\ imported = FALSE
    /\ registered_servers = <<>>
    /\ mcp_servers_cache = None
    /\ environ = {}
    /\ config \in CheckConfigs
    /\ enable_guardrails = TRUE
    /\ server_configs = <<>>
    /\ servers = <<>>
    /\ cleanup_hooks = {}
    /\ tracker = NewTracker
    /\ call = None
    /\ trace = <<>>
    /\ outcome = None
    /\ calls_made = 0
    /\ managers = <<>>
    /\ disk = {}
    /\ last = NoOp
    /\ history = <<>>

\* GuardrailEnforcer.check(tool_name, args, kwargs)
EnforcerCheck(tool_name, c) ==
    /\ outcome = None
    /\ calls_made < MaxChecks
    /\ DiscoveryEffect
    /\ outcome' = Some([op |-> "check", tool_name |-> tool_name,
                        args |-> c.args, kwargs |-> c.kwargs,
                        violation |-> check_guardrails(tool_name, c.args,
                                          c.kwargs, config, CurrentRules)])
    /\ config' = config_after_check(tool_name, c.args, c.kwargs, config,
                                    CurrentRules)
    /\ calls_made' = calls_made + 1
    /\ UNCHANGED <<modules, environ, enable_guardrails, server_configs,
                   servers, cleanup_hooks, tracker, call, trace>>
    /\ UNCHANGED <<managers, disk, last, history>>

\* the caller takes the result (or handles the exception)
Return ==
    /\ outcome # None
    /\ outcome' = None
    /\ UNCHANGED <<modules, imported, registered_servers, mcp_servers_cache,
                   environ, config, enable_guardrails, server_configs, servers,
                   cleanup_hooks, tracker, call, trace, calls_made>>
    /\ UNCHANGED <<managers, disk, last, history>>

NextCheck ==
    \/ /\ outcome = None
       /\ \E tool_name \in ToolNames, i \in 1..Len(CallArgs) :
             EnforcerCheck(tool_name, CallArgs[i])
    \/ Return

SpecCheck == InitCheck /\ [][NextCheck]_vars

(***************************************************************************)
(* Properties of the decision engine                                       *)
(***************************************************************************)

\* a check has returned or raised
Checked == outcome # None /\ Get(outcome).op = "check"
Res == Get(outcome)
Raised == IF Res.violation = None THEN "none"
          ELSE Get(Res.violation).violation_type
Paths == extract_paths_from_args(Res.args, Res.kwargs, Res.tool_name)

\* the rule sets the package's modules register
RegisteredRules ==
    {Get(modules[i].guardrail_rules) :
        i \in {j \in 1..Len(modules) : modules[j].guardrail_rules # None}}
RegisteredWriteTools == UNION {r.write_tools : r \in RegisteredRules}
RegisteredSafePatterns == UNION {r.safe_file_patterns : r \in RegisteredRules}

\* the whitelist is unset or names the tool (case-insensitively)
OnWhitelist ==
    \/ config.allowed_tools = None
    \/ \E t \in Get(config.allowed_tools) : Lower(t) = Lower(Res.tool_name)

NoSafeZonePath == \A i \in 1..Len(Paths) : ~is_in_safe_zone(Paths[i], config)

\* C2 as stated: with read_only, every call to a registered write tool whose
\* arguments hold no path inside a safe zone raises write_operation.
C2_AsStated ==
    (Checked /\ config.read_only /\ Res.tool_name \in RegisteredWriteTools
        /\ NoSafeZonePath)
    => Raised = "write_operation"

\* C2 amended: with read_only, every call to a registered write tool that
\* the whitelist does not reject and whose arguments hold no path inside a
\* safe zone (also when no path can be extracted) raises write_operation.
C2_WriteToolDenied ==
    (Checked /\ config.read_only /\ Res.tool_name \in RegisteredWriteTools
        /\ OnWhitelist /\ NoSafeZonePath)
    => Raised = "write_operation"

\* a write tool on the whitelist called with no extractable path under a
\* policy that has safe zones
C2_Witness ==
    /\ Checked /\ config.read_only /\ Res.tool_name \in RegisteredWriteTools
    /\ config.allowed_tools # None /\ OnWhitelist
    /\ config.safe_zone_paths # {} /\ Paths = <<>>
    /\ Raised = "write_operation"

\* the call's name or base name is in the blocked set of the policy
BlockedCall ==
    \E t \in config.blocked_tools
            \cup (IF config.read_only THEN RegisteredWriteTools ELSE {}) :
        Lower(t) \in {Lower(Res.tool_name), get_base_tool_name(Lower(Res.tool_name))}

SomePathOutside ==
    \E i \in 1..Len(Paths) : ~is_in_safe_zone(Paths[i], config)

PassedBlockedStep ==
    BlockedToolStep(Res.tool_name, Res.args, Res.kwargs, config, CurrentRules) = None

\* C3 as stated: under read_only with safe zones a blocked tool passes the
\* blocked-tool step only if every extracted path is in a safe zone; with a
\* path outside every safe zone the call raises write_operation; with no
\* safe zone every call to a blocked tool is denied.
C3_AsStated ==
    (Checked /\ config.read_only /\ BlockedCall) =>
        /\ (config.safe_zone_paths # {} /\ PassedBlockedStep) => ~SomePathOutside
        /\ (config.safe_zone_paths # {} /\ SomePathOutside)
              => Raised = "write_operation"
        /\ config.safe_zone_paths = {} => Raised # "none"

\* C3 amended: as stated, except that a call with a path outside every safe
\* zone raises write_operation when the whitelist does not reject it and
\* not_allowed when it does.
C3_SafeZoneOverride ==
    (Checked /\ config.read_only /\ BlockedCall) =>
        /\ (config.safe_zone_paths # {} /\ PassedBlockedStep) => ~SomePathOutside
        /\ (config.safe_zone_paths # {} /\ SomePathOutside)
              => Raised = (IF OnWhitelist THEN "write_operation" ELSE "not_allowed")
        /\ config.safe_zone_paths = {} => Raised # "none"

\* a blocked tool called with one path inside and one outside the safe zones
C3_Witness ==
    /\ Checked /\ config.read_only /\ BlockedCall /\ OnWhitelist
    /\ config.safe_zone_paths # {} /\ SomePathOutside
    /\ \E i \in 1..Len(Paths) : is_in_safe_zone(Paths[i], config)
    /\ Raised = "write_operation"

\* a safe pattern of the policy or of a registered rule set matches the
\* file name or the whole of the path
SafePatternMatches(path) ==
    \E pat \in config.safe_patterns \cup RegisteredSafePatterns :
        \/ FnMatch(LastSegment(Replace(Lower(path), "\\", "/"), "/"), Lower(pat))
        \/ FnMatch(Replace(Lower(path), "\\", "/"), Lower(pat))

\* C4: a path that a safe pattern matches is not sensitive, whatever
\* sensitive patterns match it too, and the sensitive-file step does not
\* deny the call because of that path.
C4_SafeOverridesSensitive ==
    Checked =>
        \A i \in 1..Len(Paths) :
            SafePatternMatches(Paths[i]) =>
                /\ ~is_sensitive_file(Paths[i], config, CurrentRules)
                /\ Raised = "sensitive_file" =>
                      Get(Res.violation).message
                          # "Access to sensitive file blocked: " \o Paths[i]

\* data/commands.db matches the sensitive *.db and the safe commands.db and
\* the call goes through
C4_Witness ==
    /\ Checked /\ config.block_sensitive_files
    /\ Paths = <<"data/commands.db">>
    /\ "*.db" \in get_all_sensitive_patterns(config, CurrentRules)
    /\ SafePatternMatches("data/commands.db")
    /\ Raised = "none"

\* a sensitive file or path pattern of the policy or of a registered rule
\* set matches the path (glob, or substring for a pattern with no '*')
SensitivePatternMatches(path) ==
    LET path_lower == Replace(Lower(path), "\\", "/")
    IN  \/ \E pat \in config.sensitive_patterns
                        \cup UNION {r.sensitive_file_patterns : r \in RegisteredRules} :
              \/ FnMatch(LastSegment(path_lower, "/"), Lower(pat))
              \/ FnMatch(path_lower, Lower(pat))
              \/ (~Contains(pat, "*") /\ Contains(path_lower, Lower(pat)))
        \/ \E pat \in UNION {r.sensitive_path_patterns : r \in RegisteredRules} :
              FnMatch(path_lower, Lower(pat))

\* the call's name or base name is a registered write tool
WriteToolCall ==
    \E w \in RegisteredWriteTools :
        Lower(w) \in {Lower(Res.tool_name), get_base_tool_name(Lower(Res.tool_name))}

\* a write tool call whose paths are all in a safe zone, one of them
\* sensitive and matched by no safe pattern
C5_Case ==
    /\ Checked /\ config.block_sensitive_files /\ WriteToolCall
    /\ Paths # <<>>
    /\ \A i \in 1..Len(Paths) : is_in_safe_zone(Paths[i], config)
    /\ \E i \in 1..Len(Paths) :
          SensitivePatternMatches(Paths[i]) /\ ~SafePatternMatches(Paths[i])

\* C5 as stated: with block_sensitive_files, a write tool call whose paths
\* are all in a safe zone, one of them sensitive, raises sensitive_file.
C5_AsStated == C5_Case => Raised = "sensitive_file"

\* C5 amended: such a call raises sensitive_file unless an earlier step
\* denies it: not_allowed when the whitelist rejects the tool, blocked_tool
\* when read_only is false and the tool is in policy.blocked_tools.
C5_SensitiveInSafeZone ==
    C5_Case =>
        Raised = (IF ~OnWhitelist THEN "not_allowed"
                  ELSE IF ~config.read_only /\ BlockedCall THEN "blocked_tool"
                  ELSE "sensitive_file")

\* write_file to data/.env under read_only: the override lets the call pass
\* the blocked-tool step and the sensitive-file step denies it
C5_Witness ==
    /\ C5_Case /\ config.read_only /\ BlockedCall /\ PassedBlockedStep
    /\ Paths = <<"data/.env">>
    /\ Raised = "sensitive_file"

\* C6: with allowed_tools set, a call whose lower-cased name is not the
\* lower-cased form of an allowed name raises not_allowed, blocked by
\* another rule or not; a call whose name is allowed is not denied by the
\* whitelist step.
C6_Whitelist ==
    (Checked /\ config.allowed_tools # None) =>
        IF \E t \in Get(config.allowed_tools) : Lower(t) = Lower(Res.tool_name)
        THEN Raised # "not_allowed"
        ELSE Raised = "not_allowed"

\* a blocked tool that is not on the whitelist raises not_allowed
C6_Witness ==
    /\ Checked /\ config.allowed_tools # None /\ ~OnWhitelist
    /\ config.read_only /\ BlockedCall
    /\ Raised = "not_allowed"

\* the call's name is p, "_" and a registered write tool, for a non-empty
\* prefix p; with short, p has at most ten characters and no underscore
PrefixedWriteTool(short) ==
    \E w \in RegisteredWriteTools :
        LET n == Len(Res.tool_name) - Len(w) - 1
        IN  /\ n >= 1
            /\ SubSeq(Res.tool_name, n + 1, Len(Res.tool_name)) = "_" \o w
            /\ short => /\ n <= MaxPrefixLen
                        /\ ~Contains(SubSeq(Res.tool_name, 1, n), "_")

\* the part after the first underscore when the first segment has at most
\* ten characters, else the whole name
BaseAsClaimed(name) ==
    IF Find(name, "_") \in 1..(MaxPrefixLen + 1)
    THEN SubSeq(name, Find(name, "_") + 1, Len(name))
    ELSE name

\* neither the raw nor the base name is in the blocked set
OutsideBlockedSet ==
    \A t \in config.blocked_tools
            \cup (IF config.read_only THEN RegisteredWriteTools ELSE {}) :
        Lower(t) \notin {Lower(Res.tool_name), BaseAsClaimed(Lower(Res.tool_name))}

\* C7 as stated: with read_only, a registered write tool behind any prefix
\* raises write_operation when no path is in a safe zone; a prefixed name
\* with raw and base names outside the blocked set passes the blocked-tool
\* step; the base name is the part after the first underscore when the
\* first segment has at most ten characters.
C7_AsStated ==
    Checked =>
        /\ (config.read_only /\ PrefixedWriteTool(FALSE) /\ NoSafeZonePath)
              => Raised = "write_operation"
        /\ (Contains(Res.tool_name, "_") /\ OutsideBlockedSet) => PassedBlockedStep
        /\ get_base_tool_name(Lower(Res.tool_name)) = BaseAsClaimed(Lower(Res.tool_name))

\* C7 amended: the first part holds for a prefix of at most ten characters
\* that holds no underscore, on a call the whitelist does not reject.
C7_PrefixedWriteTool ==
    Checked =>
        /\ (config.read_only /\ PrefixedWriteTool(TRUE) /\ OnWhitelist
                /\ NoSafeZonePath)
              => Raised = "write_operation"
        /\ (Contains(Res.tool_name, "_") /\ OutsideBlockedSet) => PassedBlockedStep
        /\ get_base_tool_name(Lower(Res.tool_name)) = BaseAsClaimed(Lower(Res.tool_name))

\* write_file behind the ten-character prefix "filesystem" is denied
C7_Witness ==
    /\ Checked /\ config.read_only /\ Res.tool_name = "filesystem_write_file"
    /\ config.allowed_tools # None /\ OnWhitelist /\ NoSafeZonePath
    /\ Raised = "write_operation"

\* the memory rule set is among the registered rule sets
MemoryRegistered ==
    \E r \in RegisteredRules : r.custom_check = Some("memory_check")

\* the call's raw or base name is in the isolated-write or the
\* isolated-read-all tier
IsolatedTierCall ==
    \/ Lower(Res.tool_name) \in MEMORY_ISOLATED_TOOLS \cup MEMORY_READ_ALL_TOOLS
    \/ BaseAsClaimed(Lower(Res.tool_name))
          \in MEMORY_ISOLATED_TOOLS \cup MEMORY_READ_ALL_TOOLS

\* the call's raw or base name is in the unrestricted-read tier
SearchTierCall ==
    \/ Lower(Res.tool_name) \in MEMORY_SEARCH_TOOLS
    \/ BaseAsClaimed(Lower(Res.tool_name)) \in MEMORY_SEARCH_TOOLS

\* the entity and relation identifiers the call references
Referenced == memory_referenced_entities(Res.kwargs)

\* C8 as stated: under principal P, a call of the isolated tiers is allowed
\* only if every identifier it references carries P's scoping prefix, and a
\* call that references the identifier scoped to another principal Q is
\* denied (by memory_isolation or by an earlier step), prefixed tool names
\* included.
C8_AsStated ==
    (Checked /\ MemoryRegistered /\ config.current_user_id # None
        /\ IsolatedTierCall) =>
        LET P == Get(config.current_user_id)
        IN  /\ Raised = "none" =>
                  \A e \in Referenced : StartsWith(e, "user_" \o P)
            /\ \A Q \in PrincipalIds \ {P} :
                  ("user_" \o Q) \in Referenced => Raised # "none"

\* the first violation of the steps that run before the custom checks
EarlierSteps ==
    LET allowed_v   == WhitelistStep(Res.tool_name, config)
        blocked_v   == BlockedToolStep(Res.tool_name, Res.args, Res.kwargs,
                                       config, CurrentRules)
        sensitive_v == SensitiveFileStep(Res.tool_name, Res.args, Res.kwargs,
                                         config, CurrentRules)
    IN  IF allowed_v # None THEN allowed_v
        ELSE IF blocked_v # None THEN blocked_v
        ELSE sensitive_v

\* C9 as stated, with the memory rule set registered: with no principal a
\* call of the isolated tiers raises memory_no_context, and a call of the
\* search tier is never denied by the isolation step.
C9_AsStated ==
    (Checked /\ MemoryRegistered) =>
        /\ (config.current_user_id = None /\ IsolatedTierCall)
              => Raised = "memory_no_context"
        /\ SearchTierCall
              => Raised \notin {"memory_no_context", "memory_isolation"}

\* C9 amended: with no principal a call of the isolated tiers is denied,
\* with memory_no_context unless an earlier step (whitelist, blocked tool,
\* sensitive file) denies it first; a call of the search tier is never
\* denied by the isolation step.
C9_NoContext ==
    (Checked /\ MemoryRegistered) =>
        /\ (config.current_user_id = None /\ IsolatedTierCall)
              => IF EarlierSteps = None
                 THEN Raised = "memory_no_context"
                 ELSE Res.violation = EarlierSteps
        /\ SearchTierCall
              => Raised \notin {"memory_no_context", "memory_isolation"}

\* read_graph with no principal, on the whitelist-free policy
C9_Witness ==
    /\ Checked /\ MemoryRegistered /\ config.current_user_id = None
    /\ Res.tool_name = "read_graph" /\ EarlierSteps = None
    /\ Raised = "memory_no_context"

(***************************************************************************)
(* The manager and the hook chain.  A server handle carries the hook       *)
(* given to it as process_tool_call: the layers that run, outermost        *)
(* first, before the server's real call function.                          *)
(***************************************************************************)

\* how many handles a manager creates
MaxServers == 1

\* how many screenshot files the tracker records
MaxScreenshots == 1

BROWSER_OPEN_TOOLS ==
    {"browser_navigate", "browser_click", "browser_type", "browser_fill_form",
     "browser_take_screenshot", "browser_snapshot", "browser_hover",
     "browser_drag", "browser_select_option", "browser_press_key",
     "browser_evaluate", "browser_wait_for", "browser_handle_dialog",
     "browser_file_upload", "browser_tabs", "browser_navigate_back",
     "browser_network_requests", "browser_console_messages",
     "browser_run_code", "browser_resize"}

BROWSER_CLOSE_TOOL == "browser_close"

\* only the long prefix is known
TrackedBaseName_playwright_only(tool_name) ==
    IF StartsWith(tool_name, "playwright_")
    THEN SubSeq(tool_name, Len("playwright_") + 1, Len(tool_name))
    ELSE tool_name

\* the first of "playwright_" and "pw_" that starts the name is stripped
TrackedBaseName(tool_name) ==
    IF StartsWith(tool_name, "playwright_")
    THEN SubSeq(tool_name, Len("playwright_") + 1, Len(tool_name))
    ELSE IF StartsWith(tool_name, "pw_")
    THEN SubSeq(tool_name, Len("pw_") + 1, Len(tool_name))
    ELSE tool_name

\* PlaywrightCleanupTracker.track_tool_call
track_tool_call(tr, tool_name, tool_args) ==
    LET base_name == TrackedBaseName(tool_name)
        path      == DictGet(tool_args, "path")
        shot      == /\ base_name = "browser_take_screenshot"
                     /\ \E a \in path : a.t = "str" /\ a.v # ""
    IN  [tr EXCEPT
           !.browser_opened = @ \/ base_name \in BROWSER_OPEN_TOOLS,
           !.browser_closed = @ \/ base_name = BROWSER_CLOSE_TOOL,
           !.screenshot_files =
               IF shot
               THEN Append(@, (CHOOSE a \in path : a.t = "str" /\ a.v # "").v)
               ELSE @]

\* load_from_json: a config per entry, with no guardrail rules, no cleanup
\* hooks and no tool prefix; requires_env is the keys of the entry's env
load_from_json(file) ==
    [i \in 1..Len(file) |->
        MCPServerConfig(file[i].name, None, file[i].enabled, file[i].env,
                        None, None)]

\* merge_configs: {**base, **override}
merge_configs(base, override) == DictUpdate(base, override)

\* MCPManager._load_configs: the discovered servers, merged with the JSON
\* file when a config_path is given and the file loads
load_configs(base_configs, json_file) ==
    IF json_file = None THEN base_configs
    ELSE merge_configs(base_configs, load_from_json(Get(json_file)))

\* MCPServerConfig.is_available
is_available(cfg, env) == cfg.enabled /\ cfg.requires_env \subseteq env

\* _create_server with the tracking hook in place of the guardrail hook
\* (create_process_hook called with no existing_hook)
create_server_unchained(name, cfg, enable) ==
    [name |-> name, tool_prefix |-> cfg.tool_prefix,
     hook |-> IF cfg.cleanup_hooks # None THEN <<"track">>
              ELSE IF enable THEN <<"guardrail">> ELSE <<>>]

\* MCPManager._create_server: the guardrail hook when guardrails are
\* enabled, wrapped by the server's tracking hook when it registers one
create_server(name, cfg, enable) ==
    [name |-> name, tool_prefix |-> cfg.tool_prefix,
     hook |-> (IF cfg.cleanup_hooks # None THEN <<"track">> ELSE <<>>)
                 \o (IF enable THEN <<"guardrail">> ELSE <<>>)]

\* the text of the blocked result: "[BLOCKED] ", str(e) and the hint of the
\* violation type (the hint's listing of the safe zones is left out)
BlockedText(v, cfg) ==
    "[BLOCKED] " \o v.message \o
        (IF v.violation_type = "write_operation"
         THEN "\n\nHINT: You can only write to safe zones. "
                  \o "Use paths like 'data/filename.txt' instead."
         ELSE IF v.violation_type = "sensitive_file"
         THEN "\n\nHINT: This file contains sensitive data and cannot be accessed."
         ELSE "")

\* what a hook hands back: whether the real call function was awaited,
\* whether an exception left the hook, and the result it returned itself
HookReturn(forward, raised, result) ==
    [forward |-> forward, raised |-> raised, result |-> result]

\* guardrail_hook's handling of what check_guardrails gave, with the
\* violation propagating to the caller
AfterCheck_raises(v, cfg) ==
    IF v # None
    THEN HookReturn(FALSE, TRUE, <<>>)
    ELSE HookReturn(TRUE, FALSE, <<>>)

\* guardrail_hook's handling of what check_guardrails gave: a violation
\* becomes the blocked result, else call_tool is awaited
AfterCheck(v, cfg) ==
    IF v # None
    THEN HookReturn(FALSE, FALSE,
                    <<[type |-> "text", text |-> BlockedText(Get(v), cfg)]>>)
    ELSE HookReturn(TRUE, FALSE, <<>>)

\* guardrail_hook: check_guardrails(name, (), tool_args, config), then the
\* blocked result or the await of call_tool
guardrail_hook(name, tool_args, cfg, rules) ==
    AfterCheck(check_guardrails(name, <<>>, tool_args, cfg, rules), cfg)

\* whether the outermost layer of a hook is the tracking hook
Tracked(layers) == layers # <<>> /\ Head(layers) = "track"

\* the hook the tracking hook chains to, or the handle's hook itself: the
\* guardrail hook, or with no hook the real call function
InnerHook(layers, name, tool_args, cfg, rules) ==
    IF layers = <<>>
    THEN HookReturn(TRUE, FALSE, <<>>)
    ELSE guardrail_hook(name, tool_args, cfg, rules)

\* the record of one run of a handle's hook
HookRun(tr, events, g) ==
    [tracker |-> tr, events |-> events,
     forward |-> g.forward, raised |-> g.raised, result |-> g.result]

\* process_tool_call with the guardrail hook around the tracking hook: the
\* tracker sees the call only after the guardrail allowed it
RunHook_guardrail_outside(layers, tr, name, tool_args, cfg, rules) ==
    LET inner   == InnerHook(IF Tracked(layers) THEN Tail(layers) ELSE layers,
                             name, tool_args, cfg, rules)
        checked == layers # <<"track">> /\ layers # <<>>
    IN  HookRun(IF Tracked(layers) /\ inner.forward
                THEN track_tool_call(tr, name, tool_args) ELSE tr,
                (IF checked THEN <<"check">> ELSE <<>>)
                   \o (IF Tracked(layers) /\ inner.forward
                       THEN <<"track">> ELSE <<>>),
                inner)

\* process_tool_call: the tracking hook records the call and chains to the
\* hook it wraps
RunHook(layers, tr, name, tool_args, cfg, rules) ==
    HookRun(IF Tracked(layers) THEN track_tool_call(tr, name, tool_args) ELSE tr,
            (IF Tracked(layers) THEN <<"track">> ELSE <<>>)
               \o (IF layers # <<"track">> /\ layers # <<>>
                   THEN <<"check">> ELSE <<>>),
            InnerHook(IF Tracked(layers) THEN Tail(layers) ELSE layers,
                      name, tool_args, cfg, rules))

\* the policies a manager is constructed with: the default, a safe zone
\* with a principal, and a whitelist with a blocked tool outside read-only
ManagerConfigs ==
    {DefaultGuardrailConfig,
     GuardrailConfig(TRUE, TRUE, {}, {}, {}, None, Some("U1"), {"data/"}),
     GuardrailConfig(FALSE, TRUE, {}, {}, {"read_graph"},
                     Some({"read_file", "read_graph", "open_nodes",
                           "browser_navigate", "browser_take_screenshot"}),
                     Some("U1"), {})}

\* the JSON config file of a manager: none, or one that adds a server and
\* overrides the discovered playwright entry
JsonFiles ==
    {None,
     Some(<<[name |-> "custom", enabled |-> TRUE, env |-> {}],
            [name |-> "playwright", enabled |-> TRUE, env |-> {}]>>)}

\* the names connect is called with
ServerNames == {"filesystem", "github", "memory", "playwright", "custom", "absent"}

ToolCall(n, a) == [tool_name |-> n, tool_args |-> a]

\* the tool calls the agent makes through a handle
ManagerCalls ==
    << ToolCall("write_file", <<<<"path", Str("data/out.txt")>>>>),
       ToolCall("write_file", <<<<"path", Str("src/out.txt")>>>>),
       ToolCall("write_file", <<<<"path", Str("data/.env")>>>>),
       ToolCall("read_file", <<<<"path", Str("data/.env")>>>>),
       ToolCall("read_file", <<<<"path", Str("src/a.txt")>>>>),
       ToolCall("browser_take_screenshot", <<<<"path", Str("data/shot.png")>>>>),
       ToolCall("browser_navigate", <<<<"url", Str("http://example.test")>>>>),
       ToolCall("pw_browser_click", <<>>),
       ToolCall("browser_close", <<>>),
       ToolCall("read_graph", <<>>),
       ToolCall("open_nodes", <<<<"names", List(<<Str("user_U1")>>)>>>>),
       ToolCall("mem_open_nodes", <<<<"names", List(<<Str("user_U2")>>)>>>>) >>

\* the state after MCPManager(enable_guardrails, guardrail_config,
\* config_path): discovery has run and filled the registry and its cache
\* the real call function has received nothing
NoForward == [forwarded |-> <<>>, returned |-> None, tracker_before |-> None]

Init ==
    /\ modules \in ModuleSets
    /\ imported = TRUE
    /\ registered_servers = DiscoveredRegistry(modules, FALSE, <<>>)
    /\ mcp_servers_cache = Some(registered_servers)
    /\ environ \in {{}, {"GITHUB_TOKEN"}}
    /\ config \in ManagerConfigs
    /\ enable_guardrails \in BOOLEAN
    /\ \E f \in JsonFiles : server_configs = load_configs(registered_servers, f)
    /\ servers = <<>>
    /\ cleanup_hooks = {}
    /\ tracker = NewTracker
    /\ call = None
    /\ trace = <<>>
    /\ outcome = None
    /\ calls_made = 0
    /\ managers = <<>>
    /\ disk = {}
    /\ last = NoOp
    /\ history = NoForward

\* the elements of a list
Range(seq) == {seq[i] : i \in 1..Len(seq)}

\* the names of the manager's server configs
ConfiguredNames == {server_configs[i].key : i \in 1..Len(server_configs)}

\* whether connect(name) creates a handle: the server is configured and
\* available (else ValueError)
Connectable(name) ==
    /\ IndexOf(server_configs, name) # 0
    /\ is_available(server_configs[IndexOf(server_configs, name)], environ)

\* what connect leaves: the handles, the names with a registered cleanup
\* hook set, and whether an exception left it
ConnectResult(srv, hooks, raised) ==
    [servers |-> srv, cleanup_hooks |-> hooks, raised |-> raised]

\* server = self._create_server(name, config); self._servers.append(server):
\* the cleanup hook set is registered before MCPServerStdio(...) is
\* constructed; fails holds the names for which that construction raises
ConnectEffect(srv, hooks, cfg, fails) ==
    ConnectResult(
        IF cfg.key \in fails THEN srv
        ELSE Append(srv, create_server(cfg.key, cfg, enable_guardrails)),
        IF cfg.cleanup_hooks # None THEN hooks \cup {cfg.key} ELSE hooks,
        cfg.key \in fails)

\* a connect that looks the name up and creates the server, available or not
connect_unchecked(name, srv, hooks, fails) ==
    IF IndexOf(server_configs, name) = 0
    THEN ConnectResult(srv, hooks, TRUE)
    ELSE ConnectEffect(srv, hooks,
                       server_configs[IndexOf(server_configs, name)], fails)

\* MCPManager.connect(server_name): ValueError for a name that is not
\* configured or not available, before anything is created
connect(name, srv, hooks, fails) ==
    IF ~Connectable(name)
    THEN ConnectResult(srv, hooks, TRUE)
    ELSE ConnectEffect(srv, hooks,
                       server_configs[IndexOf(server_configs, name)], fails)

\* the state after a connect of name gave r
AfterConnect(name, fails, r) ==
    /\ servers' = r.servers
    /\ cleanup_hooks' = r.cleanup_hooks
    /\ last' = [op |-> "connect", name |-> name, fails |-> fails,
                raised |-> r.raised,
                before |-> [servers |-> servers,
                            cleanup_hooks |-> cleanup_hooks]]

\* manager.connect(name)
Connect(name, fails) ==
    /\ call = None
    /\ Len(servers) < MaxServers
    /\ AfterConnect(name, fails, connect(name, servers, cleanup_hooks, fails))
    /\ UNCHANGED <<modules, imported, registered_servers, mcp_servers_cache,
                   environ, config, enable_guardrails, server_configs,
                   tracker, call, trace, outcome, calls_made>>
    /\ UNCHANGED <<managers, disk, history>>

\* the configs connect_all connects: those available, in order
AvailableConfigs == SelectSeq(server_configs, LAMBDA c : is_available(c, environ))

\* a loop of connect_all with no try around connect
TryConnect_uncaught(acc, name, fails) ==
    IF acc.raised THEN acc
    ELSE connect(name, acc.servers, acc.cleanup_hooks, fails)

\* try: self.connect(server_name) except Exception: (logged)
TryConnect(acc, name, fails) ==
    IF acc.raised THEN acc
    ELSE [connect(name, acc.servers, acc.cleanup_hooks, fails)
             EXCEPT !.raised = FALSE]

\* MCPManager.connect_all()
connect_all(srv, hooks, fails) ==
    LET F[i \in 0..Len(AvailableConfigs)] ==
            IF i = 0 THEN ConnectResult(srv, hooks, FALSE)
            ELSE TryConnect(F[i - 1], AvailableConfigs[i].key, fails)
    IN  F[Len(AvailableConfigs)]

\* the state after a connect_all gave r
AfterConnectAll(fails, r) ==
    /\ Len(r.servers) <= MaxServers
    /\ servers' = r.servers
    /\ cleanup_hooks' = r.cleanup_hooks
    /\ last' = [op |-> "connect_all", fails |-> fails, raised |-> r.raised,
                before |-> [servers |-> servers,
                            cleanup_hooks |-> cleanup_hooks]]

\* manager.connect_all()
ConnectAll(fails) ==
    /\ call = None
    /\ AfterConnectAll(fails, connect_all(servers, cleanup_hooks, fails))
    /\ UNCHANGED <<modules, imported, registered_servers, mcp_servers_cache,
                   environ, config, enable_guardrails, server_configs,
                   tracker, call, trace, outcome, calls_made>>
    /\ UNCHANGED <<managers, disk, history>>

\* MCPManager.disconnect_all()
DisconnectAll ==
    /\ servers # <<>>
    /\ call = None
    /\ servers' = <<>>
    /\ last' = [op |-> "disconnect_all"]
    /\ UNCHANGED <<modules, imported, registered_servers, mcp_servers_cache,
                   environ, config, enable_guardrails, server_configs,
                   cleanup_hooks, tracker, call, trace, outcome, calls_made>>
    /\ UNCHANGED <<managers, disk, history>>

\* call_tool with the base name in place of the name the hook received:
\* the prefix is stripped before forwarding
ForwardedCall_stripped(name, tool_args) ==
    ToolCall(TrackedBaseName(name), tool_args)

\* call_tool(name, tool_args, None): what the real call function receives
ForwardedCall(name, tool_args) == ToolCall(name, tool_args)

\* return await call_tool(...) with something else than what was awaited
HookResult_rewrapped(res) == <<[type |-> "text", text |-> "ok"]>>

\* return await call_tool(...): what the hook hands back
HookResult(res) == res

\* what the server's real call function may return
ServerResults ==
    {<<[type |-> "text", text |-> "ok"]>>,
     <<[type |-> "text", text |-> "[BLOCKED] by the server"]>>}

\* the state after a run r of the hook on the call c of servers[i]; history
\* holds what the real call function received and returned for this call
AfterHook(i, c, r) ==
    /\ Len(r.tracker.screenshot_files) <= MaxScreenshots
    /\ tracker' = r.tracker
    /\ call' = Some([server |-> servers[i].name, tool_name |-> c.tool_name,
                     tool_args |-> c.tool_args])
    /\ trace' = r.events \o (IF r.forward THEN <<"call_tool">> ELSE <<>>)
    /\ outcome' = IF r.forward THEN None
                  ELSE Some([op |-> "tool_result", raised |-> r.raised,
                             result |-> r.result])
    /\ last' = [op |-> "process_tool_call"]
    /\ history' = [forwarded |-> IF r.forward
                                 THEN <<ForwardedCall(c.tool_name, c.tool_args)>>
                                 ELSE <<>>,
                   returned |-> None,
                   tracker_before |-> Some(tracker)]

\* the agent calls a tool of servers[i]: the handle's hook runs up to the
\* blocked result or to the await of the real call function
ProcessToolCall(i, c) ==
    /\ call = None
    /\ AfterHook(i, c, RunHook(servers[i].hook, tracker, c.tool_name,
                               c.tool_args, config, CurrentRules))
    /\ UNCHANGED <<modules, imported, registered_servers, mcp_servers_cache,
                   environ, config, enable_guardrails, server_configs,
                   servers, cleanup_hooks, calls_made>>
    /\ UNCHANGED <<managers, disk>>

\* the server's real call function returns its result
CallToolReturns ==
    /\ call # None
    /\ outcome = None
    /\ \E res \in ServerResults :
          /\ outcome' = Some([op |-> "tool_result", raised |-> FALSE,
                              result |-> HookResult(res)])
          /\ history' = [history EXCEPT !.returned = Some(res)]
    /\ last' = [op |-> "call_tool_returns"]
    /\ UNCHANGED <<modules, imported, registered_servers, mcp_servers_cache,
                   environ, config, enable_guardrails, server_configs,
                   servers, cleanup_hooks, tracker, call, trace, calls_made>>
    /\ UNCHANGED <<managers, disk>>

\* the await of the server's real call function raises: the call failed,
\* or the task was cancelled while the call was in flight
CallToolRaises(error) ==
    /\ call # None
    /\ outcome = None
    /\ outcome' = Some([op |-> "tool_result", raised |-> TRUE, result |-> <<>>])
    /\ last' = [op |-> "call_tool_raises", error |-> error]
    /\ UNCHANGED <<modules, imported, registered_servers, mcp_servers_cache,
                   environ, config, enable_guardrails, server_configs,
                   servers, cleanup_hooks, tracker, call, trace, calls_made>>
    /\ UNCHANGED <<managers, disk, history>>

\* the agent loop takes the tool result
TakeResult ==
    /\ call # None
    /\ outcome # None
    /\ call' = None
    /\ outcome' = None
    /\ trace' = <<>>
    /\ last' = [op |-> "take_result"]
    /\ history' = NoForward
    /\ UNCHANGED <<modules, imported, registered_servers, mcp_servers_cache,
                   environ, config, enable_guardrails, server_configs,
                   servers, cleanup_hooks, tracker, calls_made>>
    /\ UNCHANGED <<managers, disk>>

Next ==
    \/ \E name \in ServerNames : \E fails \in {{}, {name}} : Connect(name, fails)
    \/ \E fails \in SUBSET {c.key : c \in Range(AvailableConfigs)} :
          ConnectAll(fails)
    \/ DisconnectAll
    \/ \E i \in 1..Len(servers), k \in 1..Len(ManagerCalls) :
          ProcessToolCall(i, ManagerCalls[k])
    \/ CallToolReturns
    \/ \E error \in {"Exception", "CancelledError"} : CallToolRaises(error)
    \/ TakeResult

Spec == Init /\ [][Next]_vars

(***************************************************************************)
(* Properties of the hook chain                                            *)
(***************************************************************************)

\* a tool call is in progress or its result is not yet taken
InCall == call # None

\* the real call function of the server was called for the current call
Forwarded == InCall /\ \E j \in 1..Len(trace) : trace[j] = "call_tool"

\* what the decision engine says of the current call
Decision ==
    check_guardrails(Get(call).tool_name, <<>>, Get(call).tool_args,
                     config, CurrentRules)

\* C1: for a handle created by a manager with guardrails enabled, discovered
\* or imported from JSON, with or without a tracking hook around it, a call
\* reaches the server's real call function only if
\* check(tool_name, (), tool_args, policy) raised no violation for that call.
C1_ForwardedOnlyIfAllowed ==
    (enable_guardrails /\ Forwarded) => Decision = None

\* a call forwarded through the tracking hook and the guardrail hook of the
\* discovered playwright server
C1_Witness ==
    /\ enable_guardrails /\ Forwarded
    /\ Get(call).server = "playwright"
    /\ trace = <<"track", "check", "call_tool">>
    /\ tracker.browser_opened

\* C10: when the decision engine raises a violation of any type, the hook
\* does not raise: it returns a list of exactly one text item whose text
\* starts with "[BLOCKED] ", and the real call function is not called.
C10_BlockedResult ==
    (enable_guardrails /\ InCall /\ Decision # None) =>
        /\ outcome # None
        /\ ~Get(outcome).raised
        /\ Len(Get(outcome).result) = 1
        /\ Get(outcome).result[1].type = "text"
        /\ StartsWith(Get(outcome).result[1].text, "[BLOCKED] ")
        /\ ~Forwarded

\* a violation raised by the memory rule set's custom check is returned as
\* a blocked result
C10_Witness ==
    /\ enable_guardrails /\ InCall /\ Decision # None
    /\ Get(Decision).violation_type = "memory_isolation"
    /\ outcome # None
    /\ Get(outcome).result[1].text =
          "[BLOCKED] Memory access to another user's entity is blocked"

\* C11: when the decision engine allows a call, the hook calls the real
\* call function exactly once, with the tool name and the tool arguments it
\* received, and hands back the result of that call unmodified (when the
\* call raises there is no result, and the hook raises).
C11_ForwardsUnmodified ==
    (enable_guardrails /\ InCall /\ Decision = None) =>
        /\ history.forwarded = <<[tool_name |-> Get(call).tool_name,
                                  tool_args |-> Get(call).tool_args]>>
        /\ outcome # None =>
              IF history.returned = None
              THEN Get(outcome).raised
              ELSE /\ ~Get(outcome).raised
                   /\ Get(outcome).result = Get(history.returned)

\* an allowed call with a prefixed name went through the tracking hook and
\* the guardrail hook, and the server's answer came back
C11_Witness ==
    /\ enable_guardrails /\ InCall /\ Decision = None
    /\ Get(call).tool_name = "pw_browser_click"
    /\ trace = <<"track", "check", "call_tool">>
    /\ outcome # None
    /\ Get(outcome).result = <<[type |-> "text", text |-> "[BLOCKED] by the server"]>>

(***************************************************************************)
(* middleware/guardrails/enforcer.py: functions wrapped by the enforcer    *)
(***************************************************************************)

\* a function decorated by wrap_tool (tool_name is None) or by
\* wrap_tool_with_name(tool_name); kind tells a coroutine function from a
\* plain one
Wrapped(kind, func_name, tool_name) ==
    [kind |-> kind, func_name |-> func_name, tool_name |-> tool_name]

\* the decorated functions of the behaviours
Wrappers ==
    {Wrapped(k, f, n) : k \in {"sync", "async"},
                        f \in {"read_data", "write_file"},
                        n \in {None, Some("write_file"), Some("read_file")}}

\* the name the wrapper hands to self.check: func.__name__ in wrap_tool,
\* the decorator's tool_name in wrap_tool_with_name
CheckedName(w) ==
    IF w.tool_name = None THEN w.func_name ELSE Get(w.tool_name)

\* a wrapper that runs the function whatever self.check did
AfterEnforcerCheck_runs_body(v) ==
    [raised |-> v # None, violation |-> v, body_started |-> TRUE]

\* the wrapper after self.check(...) gave v: the GuardrailViolation
\* propagates, or the wrapper goes on to func(*args, **kwargs)
AfterEnforcerCheck(v) ==
    [raised |-> v # None, violation |-> v, body_started |-> v = None]

InitWrap ==
    /\ modules \in ModuleSets
    /\ imported = FALSE
    /\ registered_servers = <<>>
    /\ mcp_servers_cache = None
    /\ environ = {}
    /\ config \in ManagerConfigs
    /\ enable_guardrails = TRUE
    /\ server_configs = <<>>
    /\ servers = <<>>
    /\ cleanup_hooks = {}
    /\ tracker = NewTracker
    /\ call = None
    /\ trace = <<>>
    /\ outcome = None
    /\ calls_made = 0
    /\ managers = <<>>
    /\ disk = {}
    /\ last = NoOp
    /\ history = <<>>

\* the state after the wrapper w, called with c, got r from its check
WrapStep(w, c, r) ==
    /\ last' = [op |-> "wrapped", wrapper |-> w, args |-> c.args,
                kwargs |-> c.kwargs]
    /\ trace' = <<"check">> \o (IF r.body_started THEN <<"body">> ELSE <<>>)
    /\ call' = IF r.body_started
               THEN Some([func_name |-> w.func_name, args |-> c.args,
                          kwargs |-> c.kwargs])
               ELSE None
    /\ outcome' = IF r.raised
                  THEN Some([op |-> "wrapped", raised |-> TRUE,
                             violation |-> r.violation])
                  ELSE None

\* sync_wrapper / async_wrapper (*args, **kwargs) up to the call of func
WrappedCall(w, c) ==
    /\ call = None
    /\ outcome = None
    /\ DiscoveryEffect
    /\ WrapStep(w, c, AfterEnforcerCheck(
                          check_guardrails(CheckedName(w), c.args, c.kwargs,
                                           config, CurrentRules)))
    /\ UNCHANGED <<modules, environ, config, enable_guardrails, server_configs,
                   servers, cleanup_hooks, tracker, calls_made, managers, disk,
                   history>>

\* func(*args, **kwargs) returns (is awaited, for a coroutine function)
BodyReturns ==
    /\ call # None
    /\ outcome = None
    /\ outcome' = Some([op |-> "wrapped", raised |-> FALSE, violation |-> None])
    /\ trace' = trace \o <<"return">>
    /\ UNCHANGED <<modules, imported, registered_servers, mcp_servers_cache,
                   environ, config, enable_guardrails, server_configs, servers,
                   cleanup_hooks, tracker, call, calls_made, managers, disk,
                   last, history>>

\* the caller takes the value or the exception
WrapperReturn ==
    /\ outcome # None
    /\ outcome' = None
    /\ call' = None
    /\ trace' = <<>>
    /\ last' = [op |-> "return"]
    /\ UNCHANGED <<modules, imported, registered_servers, mcp_servers_cache,
                   environ, config, enable_guardrails, server_configs, servers,
                   cleanup_hooks, tracker, calls_made, managers, disk, history>>

NextWrap ==
    \/ \E w \in Wrappers, i \in 1..Len(CallArgs) : WrappedCall(w, CallArgs[i])
    \/ BodyReturns
    \/ WrapperReturn

SpecWrap == InitWrap /\ [][NextWrap]_vars

\* the events of the wrapper call in progress
BodyStarted == \E i \in 1..Len(trace) : trace[i] = "body"

\* the name the enforcer is to check a wrapped function under: its own
\* name, or the override name when one was given
NameToCheck ==
    IF last.wrapper.tool_name = None THEN last.wrapper.func_name
    ELSE Get(last.wrapper.tool_name)

\* what the decision engine says of the wrapped call in progress
WrapDecision ==
    check_guardrails(NameToCheck, last.args, last.kwargs, config, CurrentRules)

\* C12: a function wrapped by the enforcer, plain or coroutine, under its
\* own name or an override name, starts its body exactly when the check of
\* the call passed; on a violation the exception reaches the caller and the
\* body is never started.
C12_BodyIffCheckPassed ==
    last.op = "wrapped" =>
        /\ BodyStarted <=> WrapDecision = None
        /\ WrapDecision # None =>
              /\ call = None
              /\ outcome = Some([op |-> "wrapped", raised |-> TRUE,
                                 violation |-> WrapDecision])
        /\ WrapDecision = None => (outcome # None => ~Get(outcome).raised)

\* a coroutine function named read_data, wrapped under the override name
\* write_file, was stopped with write_operation before its body started
C12_Witness ==
    /\ last.op = "wrapped"
    /\ last.wrapper = Wrapped("async", "read_data", Some("write_file"))
    /\ ~BodyStarted
    /\ call = None
    /\ outcome # None
    /\ Get(outcome).raised
    /\ Get(Get(outcome).violation).violation_type = "write_operation"

(***************************************************************************)
(* tools/mcp/playwright.py: the cleanup tracker on its own                 *)
(***************************************************************************)

\* how many calls are tracked between two resets
MaxTracks == 2

\* files of the temp directory that match SCREENSHOT_PATTERNS and are older
\* than max_age_minutes
OldTempScreenshots == {"/tmp/screenshot_old.png"}

\* the files the behaviours may create: a tracked output path, an old temp
\* screenshot and a recent one
DiskPaths == {"shot.png", "/tmp/screenshot_old.png", "/tmp/screenshot_new.png"}

needs_browser_cleanup(tr) == tr.browser_opened /\ ~tr.browser_closed

needs_file_cleanup(tr) == tr.screenshot_files # <<>>

\* the needs_cleanup lambda of the playwright registration
needs_cleanup(tr) == needs_browser_cleanup(tr) \/ needs_file_cleanup(tr)

\* cleanup_browser marking the session closed whether or not a close call
\* was made
cleanup_browser_marks_closed(tr, mcp_call) ==
    IF ~(tr.browser_opened /\ ~tr.browser_closed)
    THEN [tracker |-> tr, closed |-> FALSE, close_calls |-> 0]
    ELSE [tracker |-> [tr EXCEPT !.browser_closed = TRUE], closed |-> TRUE,
          close_calls |-> IF mcp_call = "none" THEN 0 ELSE 1]

\* cleanup_browser(mcp_call): mcp_call is "none", or a function that
\* returns ("ok") or raises ("raises")
cleanup_browser(tr, mcp_call) ==
    IF ~needs_browser_cleanup(tr)
    THEN [tracker |-> tr, closed |-> FALSE, close_calls |-> 0]
    ELSE IF mcp_call = "ok"
    THEN [tracker |-> [tr EXCEPT !.browser_closed = TRUE], closed |-> TRUE,
          close_calls |-> 1]
    ELSE IF mcp_call = "raises"
    THEN [tracker |-> tr, closed |-> FALSE, close_calls |-> 1]
    ELSE [tracker |-> tr, closed |-> FALSE, close_calls |-> 0]

\* cleanup_screenshot_files(): the tracked files that exist and the old
\* temp screenshots are removed, the list is cleared
cleanup_screenshot_files(tr, dsk) ==
    LET deleted == (Range(tr.screenshot_files) \cap dsk)
                       \cup (OldTempScreenshots \cap dsk)
    IN  [tracker |-> [tr EXCEPT !.screenshot_files = <<>>],
         disk |-> dsk \ deleted,
         deleted |-> deleted,
         deleted_count |-> Cardinality(deleted)]

\* a tracker whose cleanup never remembers that it ran
CleanupDone_never(tr) == FALSE

\* if self._cleanup_done
CleanupDone(tr) == tr.cleanup_done

\* the cleanup after cleanup_browser gave b and cleanup_screenshot_files f
CleanupResult(b, f) ==
    [tracker |-> [f.tracker EXCEPT !.cleanup_done = TRUE],
     disk |-> f.disk,
     close_calls |-> b.close_calls,
     deleted |-> f.deleted,
     result |-> [browser_closed |-> b.closed,
                 files_deleted |-> f.deleted_count,
                 skipped |-> FALSE]]

\* if cleanup_files: the files are cleaned on the tracker cleanup_browser
\* left, else the tracked files and the disk stay as they are
CleanupFiles(b, dsk, cleanup_files) ==
    IF cleanup_files
    THEN CleanupResult(b, cleanup_screenshot_files(b.tracker, dsk))
    ELSE CleanupResult(b, [tracker |-> b.tracker, disk |-> dsk,
                           deleted |-> {}, deleted_count |-> 0])

\* PlaywrightCleanupTracker.cleanup(mcp_call, cleanup_files)
cleanup(tr, dsk, mcp_call, cleanup_files) ==
    IF CleanupDone(tr)
    THEN [tracker |-> tr, disk |-> dsk, close_calls |-> 0, deleted |-> {},
          result |-> [browser_closed |-> FALSE, files_deleted |-> 0,
                      skipped |-> TRUE]]
    ELSE CleanupFiles(cleanup_browser(tr, mcp_call), dsk, cleanup_files)

\* a reset that forgets the session and the files and keeps _cleanup_done
reset_keeps_done(tr) == [NewTracker EXCEPT !.cleanup_done = tr.cleanup_done]

\* PlaywrightCleanupTracker.reset()
reset(tr) == NewTracker

\* the calls a tracker is told of
TrackerCalls ==
    << ToolCall("pw_browser_navigate", <<<<"url", Str("http://a")>>>>),
       ToolCall("browser_take_screenshot", <<<<"path", Str("shot.png")>>>>),
       ToolCall("playwright_browser_take_screenshot", <<<<"path", Other>>>>),
       ToolCall("browser_take_screenshot", <<<<"path", Str("")>>>>),
       ToolCall("playwright_browser_close", <<>>),
       ToolCall("read_file", <<<<"path", Str("data/a.txt")>>>>) >>

\* history: the calls tracked and whether only calls were tracked since the
\* last reset, and what the last reset found ("never" before the first
\* reset, "done" for a tracker whose cleanup had run, else "clean")
NoHistory == [calls |-> <<>>, only_tracks |-> TRUE, after_reset |-> "never"]

InitTracker ==
    /\ modules = <<PlaywrightServer>>
    /\ imported = TRUE
    /\ registered_servers = DiscoveredRegistry(modules, FALSE, <<>>)
    /\ mcp_servers_cache = Some(registered_servers)
    /\ environ = {}
    /\ config = DefaultGuardrailConfig
    /\ enable_guardrails = TRUE
    /\ server_configs = <<>>
    /\ servers = <<>>
    /\ cleanup_hooks = {}
    /\ tracker = NewTracker
    /\ call = None
    /\ trace = <<>>
    /\ outcome = None
    /\ calls_made = 0
    /\ managers = <<>>
    /\ disk = {}
    /\ last = NoOp
    /\ history = NoHistory

\* what no operation of the tracker touches
TrackerFrame ==
    UNCHANGED <<modules, imported, registered_servers, mcp_servers_cache,
                environ, config, enable_guardrails, server_configs, servers,
                cleanup_hooks, call, trace, calls_made, managers>>

\* tracker.track_tool_call(tool_name, args)
TrackCall(c) ==
    /\ Len(history.calls) < MaxTracks
    /\ tracker' = track_tool_call(tracker, c.tool_name, c.tool_args)
    /\ Len(tracker'.screenshot_files) <= MaxScreenshots
    /\ history' = [history EXCEPT !.calls = Append(@, c)]
    /\ last' = [op |-> "track", prev |-> last.op]
    /\ outcome' = None
    /\ UNCHANGED disk
    /\ TrackerFrame

\* the state after a cleanup that did r; last holds the tracker and the
\* disk the cleanup found, and whether a cleanup ran since the last reset
AfterCleanup(mcp_call, cleanup_files, r) ==
    /\ tracker' = r.tracker
    /\ disk' = r.disk
    /\ outcome' = Some(r.result)
    /\ last' = [op |-> "cleanup", prev |-> last.op, mcp_call |-> mcp_call,
                cleanup_files |-> cleanup_files,
                close_calls |-> r.close_calls, deleted |-> r.deleted,
                before |-> tracker, disk_before |-> disk,
                repeat |-> ~history.only_tracks]
    /\ history' = [history EXCEPT !.only_tracks = FALSE]

\* await tracker.cleanup(mcp_call, cleanup_files)
Cleanup(mcp_call, cleanup_files) ==
    /\ AfterCleanup(mcp_call, cleanup_files,
                    cleanup(tracker, disk, mcp_call, cleanup_files))
    /\ TrackerFrame

\* tracker.reset()
Reset ==
    /\ tracker' = reset(tracker)
    /\ history' = [NoHistory EXCEPT
                      !.after_reset = IF tracker.cleanup_done THEN "done"
                                      ELSE "clean"]
    /\ last' = [op |-> "reset", prev |-> last.op]
    /\ outcome' = None
    /\ UNCHANGED disk
    /\ TrackerFrame

\* the browser, or something else, writes a file
FileWritten(path) ==
    /\ path \notin disk
    /\ disk' = disk \cup {path}
    /\ UNCHANGED <<tracker, outcome, last, history>>
    /\ TrackerFrame

NextTracker ==
    \/ \E k \in 1..Len(TrackerCalls) : TrackCall(TrackerCalls[k])
    \/ \E mcp_call \in {"none", "ok", "raises"}, cleanup_files \in BOOLEAN :
          Cleanup(mcp_call, cleanup_files)
    \/ Reset
    \/ \E path \in DiskPaths : FileWritten(path)

SpecTracker == InitTracker /\ [][NextTracker]_vars

\* C13: of two cleanups of a tracker in succession, with no reset (and no
\* other operation of the tracker) in between, the second returns
\* skipped=true, issues no close call and deletes no file.
C13_SecondCleanupSkipped ==
    (last.op = "cleanup" /\ last.prev = "cleanup") =>
        /\ Get(outcome).skipped
        /\ ~Get(outcome).browser_closed
        /\ Get(outcome).files_deleted = 0
        /\ last.close_calls = 0
        /\ last.deleted = {}

\* a second cleanup in a row, with a working close function, while the
\* browser the first cleanup could not close is still open and an old temp
\* screenshot is on disk
C13_Witness ==
    /\ last.op = "cleanup" /\ last.prev = "cleanup"
    /\ last.mcp_call = "ok"
    /\ needs_browser_cleanup(tracker)
    /\ "/tmp/screenshot_old.png" \in disk

\* the calls tracked since the tracker was constructed or reset
TrackedCalls == history.calls

\* a name with its known prefix, if it has one, taken off
KnownPrefixes == {"playwright_", "pw_"}
BaseOf(name) ==
    IF \E p \in KnownPrefixes : StartsWith(name, p)
    THEN LET p == CHOOSE q \in KnownPrefixes : StartsWith(name, q)
         IN  SubSeq(name, Len(p) + 1, Len(name))
    ELSE name

\* some tracked call was of the open class / was the close call
OpenedByCalls ==
    \E i \in 1..Len(TrackedCalls) :
        BaseOf(TrackedCalls[i].tool_name) \in BROWSER_OPEN_TOOLS
ClosedByCalls ==
    \E i \in 1..Len(TrackedCalls) :
        BaseOf(TrackedCalls[i].tool_name) = BROWSER_CLOSE_TOOL

\* the output paths (non-empty strings) of the tracked screenshot calls
OutputPathOf(c) ==
    {a.v : a \in {b \in DictGet(c.tool_args, "path") : b.t = "str" /\ b.v # ""}}
FilesByCalls ==
    UNION {OutputPathOf(TrackedCalls[i]) :
              i \in {j \in 1..Len(TrackedCalls) :
                        BaseOf(TrackedCalls[j].tool_name) = "browser_take_screenshot"}}

\* C14: after any sequence of tracked calls, needs_cleanup is (opened and
\* not closed) or (tracked files non-empty), where opened is set by a call
\* whose base name is of the open class, closed by the close call, and the
\* output path of a screenshot call is recorded as a tracked file.
C14_NeedsCleanup ==
    history.only_tracks =>
        /\ tracker.browser_opened = OpenedByCalls
        /\ tracker.browser_closed = ClosedByCalls
        /\ Range(tracker.screenshot_files) = FilesByCalls
        /\ needs_cleanup(tracker) =
              ((OpenedByCalls /\ ~ClosedByCalls) \/ FilesByCalls # {})

\* a screenshot with an output path, then the close call under the long
\* prefix: the browser needs no cleanup, the file does
C14_Witness ==
    /\ history.only_tracks
    /\ TrackedCalls =
          <<ToolCall("browser_take_screenshot", <<<<"path", Str("shot.png")>>>>),
            ToolCall("playwright_browser_close", <<>>)>>
    /\ ~needs_browser_cleanup(tracker)
    /\ needs_cleanup(tracker)

(***************************************************************************)
(* Agent runs: each run has its own MCPManager (core/agent/factory.py);    *)
(* the playwright module's _cleanup_tracker is one object of the process,  *)
(* bound into the ServerCleanupHooks every manager gets from the registry. *)
(***************************************************************************)

Runs == {"A", "B"}

\* the servers with cleanup hooks a run connects: playwright, and a server
\* registered with hooks whose needs_cleanup reports pending work and whose
\* cleanup_async may raise
HookedServers == {"playwright", "flaky"}

\* MCPManager.__init__: no handle, no cleanup hooks; session tells whether
\* the run has opened a browser session ("open"), whether a cleanup_all
\* followed ("cleaned"), and whether the run made the close call ("closed")
NewManager == [alive |-> TRUE, servers |-> <<>>, cleanup_hooks |-> <<>>,
               session |-> "none"]
NoManager == [alive |-> FALSE, servers |-> <<>>, cleanup_hooks |-> <<>>,
              session |-> "none"]

\* hooks.needs_cleanup() of the server's hook set
HookNeeds(name, tr) ==
    IF name = "playwright" THEN needs_cleanup(tr) ELSE TRUE

\* MCPManager.needs_cleanup()
manager_needs_cleanup(mgr, tr) ==
    \E i \in 1..Len(mgr.cleanup_hooks) : HookNeeds(mgr.cleanup_hooks[i], tr)

\* the playwright cleanup is the shared tracker's; it does not raise
PlaywrightCleanup(c) ==
    [raised |-> FALSE, tracker |-> c.tracker, disk |-> c.disk,
     close_calls |-> c.close_calls, deleted |-> c.deleted, result |-> c.result]

\* await hooks.cleanup_async(mcp_call=mcp_call)
HookCleanup(name, tr, dsk, mcp_call, flaky) ==
    IF name = "playwright"
    THEN PlaywrightCleanup(cleanup(tr, dsk, mcp_call, TRUE))
    ELSE [raised |-> flaky = "raises", tracker |-> tr, disk |-> dsk,
          close_calls |-> 0, deleted |-> {}, result |-> [done |-> TRUE]]

\* a cleanup_all with no try around the server's cleanup
Caught_propagates(acc, name, h) ==
    IF h.raised THEN [acc EXCEPT !.raised = TRUE]
    ELSE [acc EXCEPT !.results = Append(@, <<name, h.result>>),
                     !.tracker = h.tracker, !.disk = h.disk,
                     !.close_calls = @ + h.close_calls,
                     !.deleted = @ \cup h.deleted]

\* try: results[name] = await cleanup_async(...)
\* except Exception as e: results[name] = {"error": str(e)}
Caught(acc, name, h) ==
    [results |-> Append(acc.results,
                        <<name, IF h.raised THEN [error |-> "cleanup failed"]
                                ELSE h.result>>),
     tracker |-> h.tracker,
     disk |-> h.disk,
     close_calls |-> acc.close_calls + h.close_calls,
     deleted |-> acc.deleted \cup h.deleted,
     raised |-> FALSE]

\* one iteration of the loop of cleanup_all
CleanupOne(acc, name, mcp_call, flaky) ==
    IF acc.raised \/ ~HookNeeds(name, acc.tracker) THEN acc
    ELSE Caught(acc, name,
                HookCleanup(name, acc.tracker, acc.disk, mcp_call, flaky))

\* MCPManager.cleanup_all(mcp_call)
cleanup_all(hooks, tr, dsk, mcp_call, flaky) ==
    LET F[i \in 0..Len(hooks)] ==
            IF i = 0
            THEN [results |-> <<>>, tracker |-> tr, disk |-> dsk,
                  close_calls |-> 0, deleted |-> {}, raised |-> FALSE]
            ELSE CleanupOne(F[i - 1], hooks[i], mcp_call, flaky)
    IN  F[Len(hooks)]

\* the tool calls of a run that go through the playwright hook chain
RunCalls ==
    << ToolCall("pw_browser_navigate", <<<<"url", Str("http://a")>>>>),
       ToolCall("browser_take_screenshot", <<<<"path", Str("shot.png")>>>>),
       ToolCall("playwright_browser_close", <<>>) >>

\* who tracked which file, and whether two managers were ever alive at once
NoRunHistory == [file_owner |-> {}, overlapped |-> FALSE]

InitRuns ==
    /\ modules = <<PlaywrightServer>>
    /\ imported = TRUE
    /\ registered_servers = DiscoveredRegistry(modules, FALSE, <<>>)
    /\ mcp_servers_cache = Some(registered_servers)
    /\ environ = {}
    /\ config = DefaultGuardrailConfig
    /\ enable_guardrails = TRUE
    /\ server_configs = <<>>
    /\ servers = <<>>
    /\ cleanup_hooks = {}
    /\ tracker = NewTracker
    /\ call = None
    /\ trace = <<>>
    /\ outcome = None
    /\ calls_made = 0
    /\ managers = [r \in Runs |-> NoManager]
    /\ disk = {}
    /\ last = NoOp
    /\ history = NoRunHistory

\* what no operation of a run touches
RunsFrame ==
    UNCHANGED <<modules, imported, registered_servers, mcp_servers_cache,
                environ, config, enable_guardrails, server_configs, servers,
                cleanup_hooks, call, trace, outcome, calls_made>>

\* MCPManager.needs_cleanup() of every manager alive
NeedsOfAll == [r \in Runs |-> managers[r].alive
                              /\ manager_needs_cleanup(managers[r], tracker)]

\* AgentFactory creates the MCPManager of a new run
StartRun(r) ==
    /\ ~managers[r].alive
    /\ managers' = [managers EXCEPT ![r] = NewManager]
    /\ history' = [history EXCEPT
                     !.overlapped = @ \/ \E q \in Runs \ {r} : managers[q].alive]
    /\ last' = [op |-> "start", run |-> r]
    /\ UNCHANGED <<tracker, disk>>
    /\ RunsFrame

\* manager.connect(name) of a server with cleanup hooks: _create_server
\* registers the hook set and the handle is appended
RunConnect(r, name) ==
    /\ managers[r].alive
    /\ name \notin Range(managers[r].servers)
    /\ managers' = [managers EXCEPT ![r].servers = Append(@, name),
                                    ![r].cleanup_hooks = Append(@, name)]
    /\ last' = [op |-> "connect", run |-> r]
    /\ UNCHANGED <<tracker, disk, history>>
    /\ RunsFrame

\* a tool call of run r through the hook chain of its playwright handle: the
\* tracking hook records it; written tells whether the server then wrote
\* the screenshot
RunToolCall(r, c, written) ==
    /\ managers[r].alive
    /\ "playwright" \in Range(managers[r].servers)
    /\ tracker' = track_tool_call(tracker, c.tool_name, c.tool_args)
    /\ Len(tracker'.screenshot_files) <= MaxScreenshots
    /\ written => TrackedBaseName(c.tool_name) = "browser_take_screenshot"
    /\ disk' = IF written THEN disk \cup OutputPathOf(c) ELSE disk
    /\ managers' = [managers EXCEPT ![r].session =
                       IF TrackedBaseName(c.tool_name) = BROWSER_CLOSE_TOOL
                       THEN "closed"
                       ELSE IF /\ TrackedBaseName(c.tool_name) \in BROWSER_OPEN_TOOLS
                               /\ @ = "none"
                       THEN "open"
                       ELSE @]
    /\ history' = [history EXCEPT !.file_owner =
                      @ \cup {<<path, r>> : path \in
                                 IF TrackedBaseName(c.tool_name) = "browser_take_screenshot"
                                 THEN OutputPathOf(c) ELSE {}}]
    /\ last' = [op |-> "call", run |-> r, needs_before |-> NeedsOfAll]
    /\ RunsFrame

\* the state after the cleanup_all of run r did a; closing tells whether
\* close_async made the call and goes on to drop the manager
AfterCleanupAll(r, mcp_call, flaky, closing, a) ==
    /\ tracker' = a.tracker
    /\ disk' = a.disk
    /\ managers' = IF closing THEN [managers EXCEPT ![r] = NoManager]
                   ELSE [managers EXCEPT ![r].session =
                            IF @ = "open" THEN "cleaned" ELSE @]
    /\ history' = [history EXCEPT !.file_owner =
                      IF a.tracker.screenshot_files = <<>> THEN {} ELSE @]
    /\ last' = [op |-> "cleanup_all", run |-> r, mcp_call |-> mcp_call,
                flaky |-> flaky, results |-> a.results, raised |-> a.raised,
                close_calls |-> a.close_calls, deleted |-> a.deleted,
                pending_before |-> {managers[r].cleanup_hooks[i] :
                                      i \in {j \in 1..Len(managers[r].cleanup_hooks) :
                                               HookNeeds(managers[r].cleanup_hooks[j], tracker)}},
                session_before |-> managers[r].session,
                owners_before |-> history.file_owner,
                overlapped |-> history.overlapped,
                closing |-> closing]

\* await manager.cleanup_all(mcp_call)
RunCleanupAll(r, mcp_call, flaky) ==
    /\ managers[r].alive
    /\ AfterCleanupAll(r, mcp_call, flaky, FALSE,
                       cleanup_all(managers[r].cleanup_hooks, tracker, disk,
                                   mcp_call, flaky))
    /\ RunsFrame

\* AgentFactory.close_async(): cleanup_all() with no mcp_call if the manager
\* needs cleanup, then disconnect_all(); the run's manager is dropped
CloseAsync(r, flaky) ==
    /\ managers[r].alive
    /\ IF manager_needs_cleanup(managers[r], tracker)
       THEN AfterCleanupAll(r, "none", flaky, TRUE,
                            cleanup_all(managers[r].cleanup_hooks, tracker,
                                        disk, "none", flaky))
       ELSE /\ managers' = [managers EXCEPT ![r] = NoManager]
            /\ last' = [op |-> "close", run |-> r]
            /\ UNCHANGED <<tracker, disk, history>>
    /\ RunsFrame

NextRuns ==
    \/ \E r \in Runs : StartRun(r)
    \/ \E r \in Runs, name \in HookedServers : RunConnect(r, name)
    \/ \E r \in Runs, k \in 1..Len(RunCalls), written \in BOOLEAN :
          RunToolCall(r, RunCalls[k], written)
    \/ \E r \in Runs, mcp_call \in {"none", "ok"}, flaky \in {"ok", "raises"} :
          RunCleanupAll(r, mcp_call, flaky)
    \/ \E r \in Runs, flaky \in {"ok", "raises"} : CloseAsync(r, flaky)

SpecRuns == InitRuns /\ [][NextRuns]_vars

\* the result cleanup_all recorded for a server, if any
ResultsOf(name) ==
    {last.results[i][2] : i \in {j \in 1..Len(last.results) :
                                    last.results[j][1] = name}}

\* C15: two runs alive at once are independent: a call tracked through one
\* run's hook chain never changes the other manager's needs_cleanup(), and
\* one run's cleanup_all issues no close call for a session it did not open
\* and deletes no file that only the other run's calls tracked.
C15_AsStated ==
    /\ last.op = "call" =>
          \A q \in Runs \ {last.run} :
              managers[q].alive =>
                  manager_needs_cleanup(managers[q], tracker) = last.needs_before[q]
    /\ last.op = "cleanup_all" =>
          /\ last.close_calls > 0 => last.session_before = "open"
          /\ \A path \in last.deleted :
                (\E q \in Runs : <<path, q>> \in last.owners_before)
                    => <<path, last.run>> \in last.owners_before

\* C16: the lifecycle state is fresh for each run: a new manager starts
\* with needs_cleanup() false, and the first cleanup_all after the run
\* opened a session performs the playwright cleanup (not skipped), whatever
\* earlier runs of the process did; stated for a run that made no close
\* call, in a process where no two runs were ever alive at once.
C16_AsStated ==
    /\ last.op = "start" =>
          ~manager_needs_cleanup(managers[last.run], tracker)
    /\ (last.op = "cleanup_all" /\ last.session_before = "open"
            /\ ~last.overlapped) =>
          /\ ResultsOf("playwright") # {}
          /\ \A res \in ResultsOf("playwright") : ~res.skipped

\* C17: cleanup_all attempts the cleanup of every server with a hook set
\* that reports pending work; an exception of one server's cleanup is
\* recorded as that server's error entry, the remaining servers are still
\* attempted, and cleanup_all does not raise.
C17_CleanupAllCatches ==
    last.op = "cleanup_all" =>
        /\ ~last.raised
        /\ \A name \in last.pending_before : ResultsOf(name) # {}
        /\ \A i \in 1..Len(last.results) :
              last.results[i][1] \in last.pending_before
        /\ last.flaky = "raises" =>
              ResultsOf("flaky") \subseteq {[error |-> "cleanup failed"]}

\* the first server's cleanup raised, and the playwright cleanup after it
\* still ran and deleted the tracked file
C17_Witness ==
    /\ last.op = "cleanup_all"
    /\ last.flaky = "raises"
    /\ last.pending_before = {"flaky", "playwright"}
    /\ Len(last.results) = 2
    /\ last.results[1] = <<"flaky", [error |-> "cleanup failed"]>>
    /\ last.results[2][1] = "playwright"
    /\ ~last.results[2][2].skipped
    /\ last.deleted = {"shot.png"}

\* the config of a name, if the manager has one
ConfigsOf(name) ==
    {server_configs[i] : i \in {j \in 1..Len(server_configs) :
                                   server_configs[j].key = name}}

\* the descriptor is enabled and every variable it requires is set
Available(cfg) == cfg.enabled /\ \A v \in cfg.requires_env : v \in environ

\* the names of the handles added by the last operation, in order
AddedNames ==
    [i \in 1..(Len(servers) - Len(last.before.servers)) |->
        servers[Len(last.before.servers) + i].name]

\* C18: connect_all never raises; afterwards the manager holds a handle for
\* each available descriptor whose creation succeeded and none for an
\* unavailable one: a failure to create one does not prevent the others.
C18_ConnectAll ==
    last.op = "connect_all" =>
        /\ ~last.raised
        /\ SubSeq(servers, 1, Len(last.before.servers)) = last.before.servers
        /\ \A cfg \in Range(server_configs) :
              (Available(cfg) /\ cfg.key \notin last.fails)
                  <=> cfg.key \in Range(AddedNames)

\* the creation of two available servers failed and the third, after and
\* between them in the order of the configs, got its handle
C18_Witness ==
    /\ last.op = "connect_all"
    /\ Cardinality(last.fails \cap {cfg.key : cfg \in {c \in Range(server_configs) : Available(c)}}) = 2
    /\ Len(AddedNames) = 1
    /\ \E cfg \in Range(server_configs) : ~Available(cfg)

\* C19: connect(key) raises when the key is unknown or its descriptor is
\* unavailable, and then the manager is unchanged: no handle added, no
\* cleanup hook set registered.
C19_ConnectRaises ==
    (/\ last.op = "connect"
     /\ \/ ConfigsOf(last.name) = {}
        \/ \E cfg \in ConfigsOf(last.name) : ~Available(cfg)) =>
        /\ last.raised
        /\ servers = last.before.servers
        /\ cleanup_hooks = last.before.cleanup_hooks

\* connect("github") with GITHUB_TOKEN unset raised and left the manager
\* as it was
C19_Witness ==
    /\ last.op = "connect"
    /\ last.name = "github"
    /\ \E cfg \in ConfigsOf("github") : ~Available(cfg)
    /\ last.raised
    /\ servers = last.before.servers

(***************************************************************************)
(* tools/mcp_registry.py: register_mcp_server on the module's registry     *)
(***************************************************************************)

\* how many registrations succeed in one behaviour
MaxRegisters == 3

\* a strip() that takes nothing off
IsBlank_never(key) == FALSE

\* key.strip() is empty
IsBlank(key) ==
    \A i \in 1..Len(key) : SubSeq(key, i, i) \in {" ", "\t", "\n"}

\* register_mcp_server(key, ...): ValueError for an empty or blank key, else
\* _registered_servers[key] = config
register_mcp_server(reg, cfg) ==
    IF cfg.key = "" \/ IsBlank(cfg.key)
    THEN [registry |-> reg, raised |-> TRUE]
    ELSE [registry |-> DictSet(reg, cfg), raised |-> FALSE]

\* the keys and the descriptors register is called with
RegisterKeys == {"", " ", "playwright", "custom", "x"}
RegisterConfigs ==
    {MCPServerConfig(key, prefix, en, {}, None, None) :
        key \in RegisterKeys, prefix \in {None, Some("pw")}, en \in BOOLEAN}

InitRegistry ==
    /\ modules = <<>>
    /\ imported = FALSE
    /\ registered_servers = <<>>
    /\ mcp_servers_cache = None
    /\ environ = {}
    /\ config = DefaultGuardrailConfig
    /\ enable_guardrails = TRUE
    /\ server_configs = <<>>
    /\ servers = <<>>
    /\ cleanup_hooks = {}
    /\ tracker = NewTracker
    /\ call = None
    /\ trace = <<>>
    /\ outcome = None
    /\ calls_made = 0
    /\ managers = <<>>
    /\ disk = {}
    /\ last = NoOp
    /\ history = <<>>

\* the state after register_mcp_server(cfg.key, ...) gave r; history is the
\* list of the descriptors registered with success
AfterRegister(cfg, r) ==
    /\ registered_servers' = r.registry
    /\ history' = IF r.raised THEN history ELSE Append(history, cfg)
    /\ last' = [op |-> "register", key |-> cfg.key, raised |-> r.raised,
                before |-> registered_servers]

\* register_mcp_server(key, ...)
Register(cfg) ==
    /\ Len(history) < MaxRegisters
    /\ AfterRegister(cfg, register_mcp_server(registered_servers, cfg))
    /\ UNCHANGED <<modules, imported, mcp_servers_cache, environ, config,
                   enable_guardrails, server_configs, servers, cleanup_hooks,
                   tracker, call, trace, outcome, calls_made, managers, disk>>

NextRegistry == \E cfg \in RegisterConfigs : Register(cfg)

SpecRegistry == InitRegistry /\ [][NextRegistry]_vars

\* the descriptors a registry holds under a key
Lookup(reg, key) == {reg[i] : i \in {j \in 1..Len(reg) : reg[j].key = key}}

\* the descriptor of the most recent successful register call for a key
MostRecent(key) ==
    LET at == {i \in 1..Len(history) : history[i].key = key}
    IN  {history[i] : i \in {j \in at : \A k \in at : k <= j}}

\* C20: after any sequence of register calls the registry maps each key to
\* the descriptor of the most recent successful register call for that key,
\* and a register call for one key leaves every other key's entry as it was.
C20_LastWriteWins ==
    /\ \A key \in RegisterKeys :
          Lookup(registered_servers, key) = MostRecent(key)
    /\ \A i \in 1..Len(registered_servers) :
          registered_servers[i].key \in RegisterKeys
    /\ last.op = "register" =>
          \A key \in RegisterKeys \ {last.key} :
              Lookup(registered_servers, key) = Lookup(last.before, key)

\* playwright was registered, then custom, then playwright again with
\* another descriptor: the registry holds the later one, and custom's entry
\* is the one it had
C20_Witness ==
    /\ Len(history) = 3
    /\ history[1].key = "playwright" /\ history[3].key = "playwright"
    /\ history[1] # history[3]
    /\ history[2].key = "custom"
    /\ last.op = "register" /\ ~last.raised /\ last.key = "playwright"
    /\ Lookup(last.before, "playwright") = {history[1]}
    /\ Lookup(registered_servers, "playwright") = {history[3]}
    /\ Lookup(registered_servers, "custom") = {history[2]}

\* the key holds no character other than white space
EmptyOrWhitespace(key) ==
    \A i \in 1..Len(key) : SubSeq(key, i, i) \in {" ", "\t", "\n"}

\* C21: register with an empty or whitespace-only key raises an error and
\* leaves the registry exactly as it was before the call.
C21_BlankKeyRaises ==
    (last.op = "register" /\ EmptyOrWhitespace(last.key)) =>
        /\ last.raised
        /\ registered_servers = last.before

\* a register with the key " " raised on a registry that holds two entries
C21_Witness ==
    /\ last.op = "register"
    /\ last.key = " "
    /\ last.raised
    /\ Len(registered_servers) = 2
    /\ registered_servers = last.before

(***************************************************************************)
(* tools/mcp_registry.py: discovery, its cache, and registrations made     *)
(* after the first discovery                                               *)
(***************************************************************************)

\* descriptors registered from outside the package, with and without rules
LateConfigs ==
    {MCPServerConfig("custom", None, TRUE, {},
         Some(ServerGuardrailRules({"my_tool"}, {"out.txt"}, {}, {},
                                   Some("name_check"))),
         None),
     MCPServerConfig("custom", None, TRUE, {}, None, None)}

\* the calls checked: a tool of the late rule set, a read tool, a memory tool
DiscoveryCalls ==
    {<<"my_tool", CallArgs[1]>>, <<"read_file", CallArgs[2]>>,
     <<"read_file", CallArgs[3]>>, <<"open_nodes", CallArgs[15]>>}

\* history.fresh: the map the first discovery since the last reset
\* returned; history.cleared: the registry was cleared and not scanned since
NoDiscovery == [fresh |-> None, cleared |-> FALSE]

InitDiscovery ==
    /\ modules \in ModuleSets
    /\ imported = FALSE
    /\ registered_servers = <<>>
    /\ mcp_servers_cache = None
    /\ environ = {}
    /\ config \in ManagerConfigs
    /\ enable_guardrails = TRUE
    /\ server_configs = <<>>
    /\ servers = <<>>
    /\ cleanup_hooks = {}
    /\ tracker = NewTracker
    /\ call = None
    /\ trace = <<>>
    /\ outcome = None
    /\ calls_made = 0
    /\ managers = <<>>
    /\ disk = {}
    /\ last = NoOp
    /\ history = NoDiscovery

\* what the registry operations leave alone
DiscoveryFrame ==
    UNCHANGED <<modules, environ, config, enable_guardrails, server_configs,
                servers, cleanup_hooks, tracker, call, calls_made,
                managers, disk>>

\* a call of get_mcp_servers, with what it did recorded
Discovers ==
    /\ DiscoveryEffect
    /\ history' = [fresh |-> IF history.fresh = None THEN mcp_servers_cache'
                             ELSE history.fresh,
                   cleared |-> history.cleared /\ mcp_servers_cache # None]

\* get_mcp_servers()
GetServers ==
    /\ outcome = None
    /\ Discovers
    /\ last' = [op |-> "get_mcp_servers", returned |-> Get(mcp_servers_cache'),
                scanned |-> mcp_servers_cache = None,
                discovered_before |-> history.fresh,
                after_clear |-> history.cleared]
    /\ UNCHANGED <<outcome, trace>>
    /\ DiscoveryFrame

\* reset_mcp_servers_cache()
ResetCache ==
    /\ outcome = None
    /\ mcp_servers_cache' = None
    /\ history' = [history EXCEPT !.fresh = None]
    /\ last' = [op |-> "reset"]
    /\ UNCHANGED <<imported, registered_servers, outcome, trace>>
    /\ DiscoveryFrame

\* _registered_servers.clear(), as the tests of the registry do
ClearRegistry ==
    /\ outcome = None
    /\ registered_servers # <<>>
    /\ registered_servers' = <<>>
    /\ history' = [history EXCEPT !.cleared = TRUE]
    /\ last' = [op |-> "clear"]
    /\ UNCHANGED <<imported, mcp_servers_cache, outcome, trace>>
    /\ DiscoveryFrame

\* register_mcp_server(...) called by code outside the package
LateRegister(cfg) ==
    /\ outcome = None
    /\ registered_servers' = register_mcp_server(registered_servers, cfg).registry
    /\ last' = [op |-> "register", key |-> cfg.key,
                raised |-> register_mcp_server(registered_servers, cfg).raised,
                before |-> registered_servers]
    /\ UNCHANGED <<imported, mcp_servers_cache, outcome, history, trace>>
    /\ DiscoveryFrame

\* check_guardrails(tool_name, args, kwargs, config): the rule sets come
\* from get_all_guardrail_rules(), which calls get_mcp_servers()
CheckCall(tool_name, c) ==
    /\ outcome = None
    /\ Discovers
    /\ outcome' = Some([op |-> "check", tool_name |-> tool_name,
                        args |-> c.args, kwargs |-> c.kwargs,
                        violation |-> check_guardrails(tool_name, c.args,
                                          c.kwargs, config, CurrentRules)])
    /\ trace' = custom_checks_invoked(tool_name, c.args, c.kwargs, config,
                                      CurrentRules)
    /\ last' = [op |-> "check"]
    /\ DiscoveryFrame

\* the caller takes the result of the check
CheckReturns ==
    /\ outcome # None
    /\ outcome' = None
    /\ trace' = <<>>
    /\ UNCHANGED <<imported, registered_servers, mcp_servers_cache, last,
                   history>>
    /\ DiscoveryFrame

NextDiscovery ==
    \/ GetServers
    \/ ResetCache
    \/ ClearRegistry
    \/ \E cfg \in LateConfigs : LateRegister(cfg)
    \/ \E tc \in DiscoveryCalls : CheckCall(tc[1], tc[2])
    \/ CheckReturns

SpecDiscovery == InitDiscovery /\ [][NextDiscovery]_vars

\* C22: discovery is idempotent: once the first discovery has run, every
\* later call returns the same descriptor map without scanning again, until
\* the cache is reset; after a reset the next call runs discovery again.
C22_DiscoveryCached ==
    last.op = "get_mcp_servers" =>
        /\ last.discovered_before # None =>
              /\ ~last.scanned
              /\ last.returned = Get(last.discovered_before)
        /\ last.discovered_before = None => last.scanned

\* a descriptor was registered after the first discovery, and the next call
\* still returned the map of the first discovery, without it
C22_Witness ==
    /\ last.op = "get_mcp_servers"
    /\ last.discovered_before # None
    /\ ~last.scanned
    /\ IndexOf(registered_servers, "custom") # 0
    /\ IndexOf(last.returned, "custom") = 0

\* C23: every check is evaluated against the union of the rule sets of all
\* descriptors registered at the time of the call, also of those registered
\* after discovery had run.
C23_AsStated ==
    Checked =>
        Res.violation =
            check_guardrails(Res.tool_name, Res.args, Res.kwargs, config,
                             get_all_guardrail_rules(registered_servers))

\* C24: after close_async completes for a run in which a browser session
\* was opened and not closed, the browser close call has been issued to the
\* tool server and the session is closed (needs_cleanup is false).
C24_AsStated ==
    (last.op = "cleanup_all" /\ last.closing /\ last.session_before = "open") =>
        /\ last.close_calls > 0
        /\ ~needs_cleanup(tracker)

\* the call's name is, case-insensitively, a name of policy.blocked_tools
NamedInBlockedTools ==
    \E t \in config.blocked_tools : Lower(t) = Lower(Res.tool_name)

\* C25: every call to a tool named in policy.blocked_tools is denied while
\* that policy is in force, whatever its arguments and whatever read_only.
C25_AsStated ==
    (Checked /\ NamedInBlockedTools) => Raised # "none"

\* the violation type a step raises, "none" when the step passes
TypeOf(v) == IF v = None THEN "none" ELSE Get(v).violation_type

\* what each step decides on the call when evaluated on its own, in the
\* order whitelist, blocked tool, sensitive file, custom checks
StepTypes ==
    << TypeOf(WhitelistStep(Res.tool_name, config)),
       TypeOf(BlockedToolStep(Res.tool_name, Res.args, Res.kwargs, config,
                              CurrentRules)),
       TypeOf(SensitiveFileStep(Res.tool_name, Res.args, Res.kwargs, config,
                                CurrentRules)),
       TypeOf(CustomCheckStep(Res.tool_name, Res.args, Res.kwargs, config,
                              CurrentRules)) >>

\* the first entry that is not "none", "none" when there is none
FirstFailing(types) ==
    IF \A i \in 1..Len(types) : types[i] = "none" THEN "none"
    ELSE types[CHOOSE i \in 1..Len(types) :
                  /\ types[i] # "none"
                  /\ \A j \in 1..(i - 1) : types[j] = "none"]

\* some extracted path is sensitive and matched by no safe pattern
SomeSensitivePath ==
    \E i \in 1..Len(Paths) :
        SensitivePatternMatches(Paths[i]) /\ ~SafePatternMatches(Paths[i])

\* C26: the steps of a check are decided in the fixed order whitelist,
\* blocked tool, sensitive file, custom checks, and the first failing step
\* decides the violation raised: a call that is not on the whitelist and
\* holds a sensitive path raises not_allowed, and a write tool outside the
\* safe zones with a sensitive path raises write_operation.
C26_FixedOrder ==
    Checked =>
        /\ Raised = FirstFailing(StepTypes)
        /\ (~OnWhitelist /\ config.block_sensitive_files /\ SomeSensitivePath)
              => Raised = "not_allowed"
        /\ (OnWhitelist /\ config.read_only /\ WriteToolCall /\ NoSafeZonePath
                /\ config.block_sensitive_files /\ SomeSensitivePath)
              => Raised = "write_operation"

\* a write tool on the whitelist, called with a sensitive path outside the
\* safe zones: both the blocked-tool and the sensitive-file step fail and
\* the call raises write_operation
C26_Witness ==
    /\ Checked /\ config.read_only /\ config.block_sensitive_files
    /\ config.safe_zone_paths # {}
    /\ OnWhitelist /\ WriteToolCall /\ NoSafeZonePath /\ SomeSensitivePath
    /\ StepTypes[2] = "write_operation" /\ StepTypes[3] = "sensitive_file"
    /\ Raised = "write_operation"

\* the call's name or base name is in policy.blocked_tools
InPolicyBlockedTools ==
    \E t \in config.blocked_tools :
        Lower(t) \in {Lower(Res.tool_name), get_base_tool_name(Lower(Res.tool_name))}

\* C27 as stated: with read_only false, a tool in policy.blocked_tools is
\* denied with blocked_tool on every call, with no safe-zone override, and
\* the registered write tools are not part of the blocked set; with
\* read_only true every denial of the blocked-tool step has type
\* write_operation.
C27_AsStated ==
    Checked =>
        /\ (~config.read_only /\ NamedInBlockedTools)
              => Raised = "blocked_tool"
        /\ (~config.read_only /\ WriteToolCall /\ ~InPolicyBlockedTools)
              => StepTypes[2] = "none"
        /\ config.read_only => StepTypes[2] \in {"none", "write_operation"}

\* C27 amended: with read_only false, a tool in policy.blocked_tools is
\* denied on every call, with blocked_tool unless the whitelist rejects its
\* name (then not_allowed); the rest as stated.
C27_BlockedTool ==
    Checked =>
        /\ (~config.read_only /\ NamedInBlockedTools)
              => Raised = (IF OnWhitelist THEN "blocked_tool" ELSE "not_allowed")
        /\ (~config.read_only /\ WriteToolCall /\ ~InPolicyBlockedTools)
              => StepTypes[2] = "none"
        /\ config.read_only => StepTypes[2] \in {"none", "write_operation"}

\* read_only is false and a tool of policy.blocked_tools is called with a
\* path inside a safe zone: there is no override, the call raises
\* blocked_tool
C27_Witness ==
    /\ Checked /\ ~config.read_only /\ NamedInBlockedTools /\ OnWhitelist
    /\ config.safe_zone_paths # {} /\ Paths # <<>>
    /\ \A i \in 1..Len(Paths) : is_in_safe_zone(Paths[i], config)
    /\ Raised = "blocked_tool"

\* the custom checks of the descriptors the check sees, in the order the
\* descriptors were registered
ChecksInOrder ==
    LET with_check(c) == /\ c.guardrail_rules # None
                         /\ Get(c.guardrail_rules).custom_check # None
        sel == SelectSeq(Get(mcp_servers_cache), with_check)
    IN  [i \in 1..Len(sel) |-> Get(Get(sel[i].guardrail_rules).custom_check)]

\* what the custom check decides on the call when run on its own
DecisionOf(check) ==
    RunCustomCheck(check, Res.tool_name, Res.args, Res.kwargs, config)

\* C28: custom checks are invoked only after the whitelist, blocked-tool
\* and sensitive-file steps have all passed; they are invoked in the
\* registration order of their rule sets; once one raises, no later custom
\* check is invoked.
C28_CustomChecksLast ==
    Checked =>
        /\ trace # <<>> => EarlierSteps = None
        /\ Len(trace) <= Len(ChecksInOrder)
        /\ trace = SubSeq(ChecksInOrder, 1, Len(trace))
        /\ \A i \in 1..(Len(trace) - 1) : DecisionOf(trace[i]) = None
        /\ (EarlierSteps = None /\ Len(trace) < Len(ChecksInOrder))
              => /\ trace # <<>>
                 /\ DecisionOf(trace[Len(trace)]) # None
                 /\ Res.violation = DecisionOf(trace[Len(trace)])

\* two rule sets with a custom check are registered, the first check
\* raises and the second is not invoked
C28_Witness ==
    /\ Checked
    /\ ChecksInOrder = <<"memory_check", "name_check">>
    /\ trace = <<"memory_check">>
    /\ DecisionOf("name_check") # None
    /\ Raised = "memory_no_context"

\* the server of the call in flight registered a tracking hook with the
\* manager
TrackingServer == InCall /\ Get(call).server \in cleanup_hooks

\* where a stage is in the trace of the call in flight, 0 when it did not
\* run
StageAt(stage) ==
    IF \E i \in 1..Len(trace) : trace[i] = stage
    THEN CHOOSE i \in 1..Len(trace) : trace[i] = stage
    ELSE 0

\* C29: a call to a server whose descriptor declares a tracking hook goes
\* through the chain in the fixed order track_call, decision engine, real
\* call: the tracker observes the call before the guardrail decides, the
\* guardrail decides before the real call, and each stage runs at most
\* once per call.
C29_ChainOrder ==
    TrackingServer =>
        /\ \A i, j \in 1..Len(trace) : trace[i] = trace[j] => i = j
        /\ \A i \in 1..Len(trace) : trace[i] \in {"track", "check", "call_tool"}
        /\ StageAt("track") = 1
        /\ enable_guardrails => StageAt("check") = 2
        /\ StageAt("call_tool") # 0 =>
              /\ StageAt("call_tool") = Len(trace)
              /\ enable_guardrails => Decision = None
        /\ (StageAt("call_tool") = 0 /\ enable_guardrails) => Decision # None

\* a call to the playwright server went through the three stages in order
\* and its result came back
C29_Witness ==
    /\ TrackingServer /\ enable_guardrails
    /\ Get(call).server = "playwright"
    /\ Get(call).tool_name = "browser_navigate"
    /\ trace = <<"track", "check", "call_tool">>
    /\ outcome # None /\ ~Get(outcome).raised

\* the guardrail blocked the call in flight
CallBlocked == InCall /\ enable_guardrails /\ Decision # None

\* the forwarded call of the call in flight failed or was cancelled
CallFailed == InCall /\ outcome # None /\ Get(outcome).raised

\* C30: the tracker's state (opened, closed, tracked files), and so
\* needs_cleanup, reflects only calls that were forwarded to the server and
\* completed: a call that the guardrail blocked, or whose forwarded call
\* failed or was cancelled in flight, leaves the tracker's state unchanged.
C30_AsStated ==
    (CallBlocked \/ CallFailed) =>
        /\ tracker = Get(history.tracker_before)
        /\ needs_cleanup(tracker) = needs_cleanup(Get(history.tracker_before))

\* a cleanup with no mcp_call ran on a tracker whose session was opened and
\* not closed
CleanupWithoutCall ==
    /\ last.op = "cleanup" /\ last.mcp_call = "none"
    /\ last.before.browser_opened /\ ~last.before.browser_closed

\* no close call was issued, the result says browser_closed=false, the
\* session is still opened and not closed, and with cleanup_files the
\* tracked files are gone from the disk and from the tracker
SessionLeftOpenFilesDeleted ==
    /\ last.close_calls = 0
    /\ ~Get(outcome).browser_closed
    /\ tracker.browser_opened /\ ~tracker.browser_closed
    /\ last.cleanup_files =>
          /\ tracker.screenshot_files = <<>>
          /\ Range(last.before.screenshot_files) \cap last.disk_before
                \subseteq last.deleted
          /\ Get(outcome).files_deleted = Cardinality(last.deleted)

C32_ResetRestores ==
    /\ last.op = "reset" =>
          /\ ~tracker.browser_opened /\ ~tracker.browser_closed
          /\ tracker.screenshot_files = <<>>
          /\ ~tracker.cleanup_done
          /\ ~needs_cleanup(tracker)
    /\ (last.op = "cleanup" /\ history.after_reset # "never" /\ ~last.repeat)
          => /\ ~Get(outcome).skipped
             /\ (last.mcp_call = "ok" /\ last.cleanup_files)
                   => ~needs_cleanup(tracker)

\* a tracker whose cleanup had run was reset, a browser call was tracked,
\* and the cleanup that followed closed the browser
C32_Witness ==
    /\ last.op = "cleanup" /\ history.after_reset = "done" /\ ~last.repeat
    /\ last.before.browser_opened
    /\ ~Get(outcome).skipped
    /\ Get(outcome).browser_closed
    /\ last.close_calls = 1

\* the position of the most recent tracked call of the open class, and of
\* the most recent close call; 0 when there is none
LastOpenCall ==
    LET at == {i \in 1..Len(TrackedCalls) :
                  BaseOf(TrackedCalls[i].tool_name) \in BROWSER_OPEN_TOOLS}
    IN  IF at = {} THEN 0 ELSE CHOOSE i \in at : \A j \in at : j <= i
LastCloseCall ==
    LET at == {i \in 1..Len(TrackedCalls) :
                  BaseOf(TrackedCalls[i].tool_name) = BROWSER_CLOSE_TOOL}
    IN  IF at = {} THEN 0 ELSE CHOOSE i \in at : \A j \in at : j <= i

\* C37: after any sequence of tracked calls with no reset, if the most
\* recent open-class call came after the most recent close call (the
\* session was reopened after being closed, or a close call preceded the
\* first open), needs_cleanup is true.
C37_AsStated ==
    (history.only_tracks /\ LastOpenCall > LastCloseCall)
        => needs_cleanup(tracker)

\* C38: if a cleanup() attempt leaves the session open (no mcp_call was
\* supplied, or the close call raised) or leaves tracked files in place
\* (cleanup_files=false), a later cleanup() with a working mcp_call and
\* cleanup_files=true, with no reset() in between, issues the close call
\* and deletes the files, after which needs_cleanup is false.
C38_AsStated ==
    (/\ last.op = "cleanup" /\ last.prev = "cleanup"
     /\ last.mcp_call = "ok" /\ last.cleanup_files
     /\ needs_cleanup(last.before))
    => /\ needs_browser_cleanup(last.before) => last.close_calls = 1
       /\ Range(last.before.screenshot_files) \cap last.disk_before
             \subseteq last.deleted
       /\ ~needs_cleanup(tracker)

\* C33: when the registry has been cleared and the discovery cache reset,
\* the next discovery re-executes the registration of every server module
\* of the package, also of the modules that were already imported, so the
\* returned map again holds every server those modules register.
C33_AsStated ==
    (last.op = "get_mcp_servers" /\ last.scanned /\ last.after_clear) =>
        \A i \in 1..Len(modules) : IndexOf(last.returned, modules[i].key) # 0

\* C34: the policy is immutable during a run: no check changes any field
\* of the policy it is given (read_only, blocked_tools, allowed_tools,
\* sensitive and safe patterns, safe_zone_paths, principal id), also when
\* rule sets are merged into the aggregated sets.
C34_PolicyImmutable == [][config' = config]_vars

\* a check under read_only denied a registered write tool that is not in
\* policy.blocked_tools: the write tools of the rule sets were merged into
\* the blocked set, and the policy's own set does not hold them
C34_Witness ==
    /\ Checked /\ config.read_only
    /\ Res.tool_name \in RegisteredWriteTools
    /\ config.blocked_tools # {}
    /\ Res.tool_name \notin config.blocked_tools
    /\ Raised = "write_operation"

\* what check decides on the call under the policy with its whitelist
\* replaced
DecisionWith(allowed) ==
    check_guardrails(Res.tool_name, Res.args, Res.kwargs,
                     [config EXCEPT !.allowed_tools = allowed], CurrentRules)

\* the whitelists tried on the call: empty, the tool alone, the tool among
\* others, others without the tool
WhitelistsTried ==
    {{}, {Res.tool_name}, {Res.tool_name, "read_file", "Write_File"},
     {"read_file", "Write_File"} \ {Res.tool_name}}

\* C35: whitelist mode only restricts: for every call and policy, if check
\* denies the call with allowed_tools=None then check also denies it with
\* any allowed_tools set, so a whitelisted write tool is still denied under
\* read_only and a whitelisted tool reading a sensitive file is still
\* denied.
C35_WhitelistOnlyRestricts ==
    (Checked /\ DecisionWith(None) # None) =>
        /\ Raised # "none"
        /\ \A allowed \in WhitelistsTried : DecisionWith(Some(allowed)) # None
        /\ OnWhitelist => Res.violation = DecisionWith(None)

\* a write tool that is on the whitelist is denied under read_only
C35_Witness ==
    /\ Checked /\ config.allowed_tools # None /\ OnWhitelist
    /\ config.read_only /\ WriteToolCall
    /\ DecisionWith(None) # None
    /\ Raised = "write_operation"

RECURSIVE Segments(_)
\* the segments of a path between its '/' characters
Segments(path) ==
    IF Find(path, "/") = 0 THEN <<path>>
    ELSE <<SubSeq(path, 1, Find(path, "/") - 1)>>
            \o Segments(SubSeq(path, Find(path, "/") + 1, Len(path)))

RECURSIVE ResolveFrom(_, _, _)
\* the segments with "", "." dropped and each ".." taking back the segment
\* before it
ResolveFrom(segs, i, acc) ==
    IF i > Len(segs) THEN acc
    ELSE IF segs[i] \in {"", "."} THEN ResolveFrom(segs, i + 1, acc)
    ELSE IF segs[i] = ".."
    THEN ResolveFrom(segs, i + 1,
                     IF acc = <<>> THEN acc ELSE SubSeq(acc, 1, Len(acc) - 1))
    ELSE ResolveFrom(segs, i + 1, Append(acc, segs[i]))

Resolved(path) == ResolveFrom(Segments(Replace(Lower(path), "\\", "/")), 1, <<>>)

\* the resolved path lies under the safe-zone directory
ResolvesUnder(path, zone) ==
    /\ Len(Resolved(zone)) <= Len(Resolved(path))
    /\ SubSeq(Resolved(path), 1, Len(Resolved(zone))) = Resolved(zone)

\* a relative path that starts with a safe-zone prefix and, once its '..'
\* segments are resolved, lies under no safe-zone directory
LeavesSafeZone(path) ==
    /\ path # "" /\ Chr(path, 1) # "/"
    /\ \E zone \in config.safe_zone_paths :
          StartsWith(Replace(Lower(path), "\\", "/"),
                     RStrip(Replace(Lower(zone), "\\", "/"), "/") \o "/")
    /\ \A zone \in config.safe_zone_paths : ~ResolvesUnder(path, zone)

\* C36: a path is treated as inside a safe zone only if, after resolving
\* its '..' segments, it lies under a safe-zone directory: a write-tool call
\* under read_only (that the whitelist lets pass) whose path starts with a
\* safe-zone prefix but leaves it through '..' (data/../src/x) does not get
\* the safe-zone override and is denied with write_operation.
C36_AsStated ==
    (/\ Checked /\ config.read_only /\ WriteToolCall /\ OnWhitelist
     /\ \E i \in 1..Len(Paths) : LeavesSafeZone(Paths[i]))
    => /\ \A i \in 1..Len(Paths) :
             LeavesSafeZone(Paths[i]) => ~is_in_safe_zone(Paths[i], config)
       /\ ~PassedBlockedStep
       /\ Raised = "write_operation"

====
